---- MODULE Spec2Model ----
(***************************************************************************)
(* Split-NER: the span decoder and the entity-level scoring of             *)
(* splitner/evaluator_qa.py (class EvaluatorQA).                           *)
(*                                                                         *)
(* The constructor of EvaluatorQA decodes the gold tag rows, then the      *)
(* predicted tag rows, then scores the two span lists.  The model steps    *)
(* through the constructor one token (decoding) or one context (scoring)   *)
(* at a time.  Positions and context indices are 0-based as in the Python  *)
(* code; TLA+ sequences are 1-based, so row r of a batch is batch[r + 1].  *)
(***************************************************************************)
EXTENDS Integers, Sequences, FiniteSets, TLC

(***************************************************************************)
(* Bounds of the model.                                                    *)
(***************************************************************************)
\* longest row of a single-context evaluation whose gold row is arbitrary
MaxLen == 4
\* longest row of a single-context evaluation whose predicted row is arbitrary
MaxPredLen == 3
\* largest number of contexts of a multi-context evaluation
MaxBatch == 2
\* largest number of add_tp / add_fp / add_fn calls for one entity type made
\* on a Metric that is exercised on its own
MaxCalls == 10

\* the longest row decoded with the Span objects kept by identity
MaxHeapLen == 2

\* the largest number of contexts given to bert_to_orig_token_mapping1
MaxContexts == 2

(***************************************************************************)
(* Program constants.                                                      *)
(***************************************************************************)
\* the ignore sentinel of the gold mask
IGNORE == -100

\* NerQADataset.get_tag_index(text_tag, none_tag): the class index of a tag
none_tag_index == 0
b_tag_index == 1
i_tag_index == 2
e_tag_index == 3
s_tag_index == 4

\* the schemes: num_labels = 2 (BO), 3 (BIO), 4 (BIOE), 5 (BIOES)
NumLabels == {2, 3, 4, 5}

\* the placeholder type of an evaluator built without a dataset
TAG == "TAG"

\* no dataset (Python None, or an empty dataset: both are falsy)
NoDataset == << >>

(***************************************************************************)
(* Inputs of the constructor.                                              *)
(***************************************************************************)
Rows(T, l) == [1..l -> T]

\* the class indices the scheme with n labels defines
SchemeTags(n) == 0..(n - 1)

\* a row of the same length carrying the none tag everywhere
AllNone(row) == [k \in 1..Len(row) |-> none_tag_index]

\* the gold row as a prediction: the ignored positions predicted as none
Perfect(row) == [k \in 1..Len(row) |-> IF row[k] = IGNORE THEN none_tag_index ELSE row[k]]

\* any integer a predicted row may carry
AnyTags == {IGNORE} \cup 0..5

\* several contexts: the rows a batch is made of
BatchRows == {<<b_tag_index>>, <<b_tag_index, i_tag_index>>, <<none_tag_index, b_tag_index>>}

\* a dataset with one context per row: all of one type, or of alternating types
\* the rows of contexts scored together: two entities, one long entity, one
\* late entity
ScoreRows == {<<b_tag_index, b_tag_index>>, <<b_tag_index, i_tag_index>>,
              <<none_tag_index, b_tag_index>>}

Datasets(k) == {NoDataset,
                [c \in 1..k |-> "DISEASE"],
                [c \in 1..k |-> IF c % 2 = 1 THEN "DISEASE" ELSE "GENE"]}

Max(a, b) == IF a >= b THEN a ELSE b

(***************************************************************************)
(* State.                                                                  *)
(***************************************************************************)
VARIABLES
    num_labels,              \* self.num_labels
    gold,                    \* self.gold: the gold rows
    predicted,               \* self.predicted: the predicted rows
    dataset,                 \* self.dataset: the entity of every context, or NoDataset
    pc,                      \* where the constructor is
    context_index,           \* loop variable of the decode routine / of zip
    tok_index,               \* loop variable of the decode routine
    batch_spans,             \* the lists of the rows decoded so far
    context_spans,           \* the list of the row being decoded
    prev_span,               \* the open span: an index of context_spans, 0 for None
    gold_entity_spans,       \* self.gold_entity_spans
    predicted_entity_spans,  \* self.predicted_entity_spans
    entity_metric,           \* the calls made on the Metric, in order
    metric,                  \* the Metric: its counters tp, fp, fn per entity type
    report,                  \* what the caller read from the Metric
    heap,                    \* the Span objects by identity (used where identity matters)
    contexts,                \* bert_to_orig_token_mapping1: dataset.contexts
    model_predictions,       \* its argument: one row of class indices per context
    data_dict,               \* its dictionary: the entry of every sentence seen
    i_ctx,                   \* its loop variable i
    j_bert,                  \* its loop variable j
    ptr,                     \* the original token the next first sub-word belongs to
    data,                    \* the list it returns
    token_with_pos,          \* make_entry_context: the tokens of the text
    tok_tags,                \* the tags written to the tokens (the others keep "O")
    entry_tags,              \* its argument: the annotations [tag, start, end]
    error_cnt,               \* its error counter
    non_overlap_tags,        \* the annotations it keeps
    entry_start,             \* its variable start: an offset, later a token index
    tag_i,                   \* the position of its loops over the annotations
    tok_i,                   \* the position i of its loop over the tokens
    do_split,                \* its flag do_split
    sentences                \* the sentences it returns

vars == <<num_labels, gold, predicted, dataset, pc, context_index, tok_index,
          batch_spans, context_spans, prev_span, gold_entity_spans,
          predicted_entity_spans, entity_metric, metric, report, heap,
          contexts, model_predictions, data_dict, i_ctx, j_bert, ptr, data,
          token_with_pos, tok_tags, entry_tags, error_cnt, non_overlap_tags, entry_start,
          tag_i, tok_i, do_split, sentences>>

\* the state of EvaluatorQA, of its Metric and of its caller
evaluatorVars == <<num_labels, gold, predicted, dataset, pc, context_index, tok_index,
                   batch_spans, context_spans, prev_span, gold_entity_spans,
                   predicted_entity_spans, entity_metric, metric, report, heap>>

\* the state of bert_to_orig_token_mapping1
mapVars == <<contexts, model_predictions, data_dict, i_ctx, j_bert, ptr, data>>

\* bert_to_orig_token_mapping1 is not running
MapIdle ==
    /\ contexts = << >>
    /\ model_predictions = << >>
    /\ data_dict = << >>
    /\ i_ctx = 0
    /\ j_bert = 0
    /\ ptr = 0
    /\ data = << >>

inputs == <<num_labels, gold, predicted, dataset>>

\* the state the evaluator's constructor and the Metric do not keep
\* the state of make_entry_context
entryVars == <<token_with_pos, tok_tags, entry_tags, error_cnt, non_overlap_tags, entry_start,
               tag_i, tok_i, do_split, sentences>>

\* make_entry_context is not running
EntryIdle ==
    /\ token_with_pos = [len |-> 0, dots |-> {}]
    /\ tok_tags = << >>
    /\ entry_tags = << >>
    /\ error_cnt = 0
    /\ non_overlap_tags = << >>
    /\ entry_start = 0
    /\ tag_i = 0
    /\ tok_i = 0
    /\ do_split = FALSE
    /\ sentences = << >>

others == <<heap, mapVars, entryVars>>

\* and its value where it is not used
OthersIdle == heap = << >> /\ MapIdle /\ EntryIdle

\* no Metric has been built yet
NoMetric == << >>

\* the caller has read nothing yet
NoReport == [made |-> FALSE]

\* the constructor's arguments
Given(n, g, p, d) ==
    /\ num_labels = n
    /\ gold = g
    /\ predicted = p
    /\ dataset = d

\* one context, any gold row of the scheme with ignored positions; the
\* prediction is empty of entities or repeats the gold row
GoldSideInputs ==
    \E n \in NumLabels, l \in 0..MaxLen :
       \E g \in Rows({IGNORE} \cup SchemeTags(n), l) :
          \E p \in {AllNone(g), Perfect(g)} :
             Given(n, <<g>>, <<p>>, NoDataset)

\* one context, any mask in the gold row, any predicted row of the scheme
PredSideInputs ==
    \E n \in NumLabels, l \in 0..MaxPredLen :
       \E g \in Rows({IGNORE, none_tag_index}, l), p \in Rows(SchemeTags(n), l) :
          Given(n, <<g>>, <<p>>, NoDataset)

\* one context, BIO, gold and predicted rows both arbitrary
BothSideInputs ==
    \E l \in 0..MaxPredLen :
       \E g \in Rows(SchemeTags(3), l), p \in Rows(SchemeTags(3), l) :
          Given(3, <<g>>, <<p>>, NoDataset)

\* one context, gold all none, the predicted row carries any integer,
\* including indices the scheme does not define and the ignore sentinel
AnyTagInputs ==
    \E n \in NumLabels, l \in 1..MaxPredLen :
       \E p \in Rows(AnyTags, l) :
          Given(n, <<AllNone(p)>>, <<p>>, NoDataset)

\* several contexts, the two batches of any two shapes, with or without a
\* dataset
BatchInputs ==
    \E n \in {2, 3}, kg \in 0..MaxBatch, kp \in 0..MaxBatch :
       \E g \in Rows(BatchRows, kg), p \in Rows(BatchRows, kp) :
          \E d \in Datasets(Max(kg, kp)) :
             Given(n, g, p, d)

\* as many gold as predicted contexts, BIO, lists of one or two spans
ScoringInputs ==
    \E g \in Rows(ScoreRows, MaxBatch), p \in Rows(ScoreRows, MaxBatch) :
       \E d \in {NoDataset, [c \in 1..MaxBatch |-> IF c % 2 = 1 THEN "DISEASE" ELSE "GENE"]} :
          Given(3, g, p, d)

Init ==
    /\ \/ GoldSideInputs
       \/ PredSideInputs
       \/ BothSideInputs
       \/ AnyTagInputs
       \/ BatchInputs
       \/ ScoringInputs
    /\ pc = "gold"
    /\ context_index = 0
    /\ tok_index = 0
    /\ batch_spans = << >>
    /\ context_spans = << >>
    /\ prev_span = 0
    /\ gold_entity_spans = << >>
    /\ predicted_entity_spans = << >>
    /\ entity_metric = << >>
    /\ metric = NoMetric
    /\ report = NoReport
    /\ OthersIdle

(***************************************************************************)
(* Collaborators that live outside evaluator_qa.py.                        *)
(***************************************************************************)
\* Span(context_index, start, end, tag) of splitner/evaluator.py
Span(c, s, e, t) == [context_index |-> c, start |-> s, end |-> e, tag |-> t]

\* Span.__eq__: two spans are equal iff all four fields match
SpanEq(a, b) ==
    /\ a.context_index = b.context_index
    /\ a.start = b.start
    /\ a.end = b.end
    /\ a.tag = b.tag

(***************************************************************************)
(* Metric of splitner/evaluator.py: per entity type the counters tp, fp    *)
(* and fn, and the scores read from them.  A score is a fraction           *)
(* <<numerator, denominator>> with a positive denominator.                 *)
(***************************************************************************)
\* self.tags: the keys of dataset.tag_to_text_mapping, or ["TAG"]
Tags == IF dataset # NoDataset THEN {dataset[c] : c \in 1..Len(dataset)} ELSE {TAG}

\* Metric(tags): every registered type starts with zero counters
NewMetric(tags) == [t \in tags |-> [tp |-> 0, fp |-> 0, fn |-> 0]]

\* add_tp(span), add_fp(span), add_fn(span): one more for the type of the
\* span; a type seen for the first time is registered
Add(m, op, tag) ==
    LET old == IF tag \in DOMAIN m THEN m[tag] ELSE [tp |-> 0, fp |-> 0, fn |-> 0]
    IN  [t \in DOMAIN m \cup {tag} |-> IF t = tag THEN [old EXCEPT ![op] = @ + 1] ELSE m[t]]

\* a sequence of calls, made in order
RECURSIVE AddAll(_, _)
AddAll(m, calls) ==
    IF calls = << >> THEN m
    ELSE AddAll(Add(m, Head(calls).op, Head(calls).span.tag), Tail(calls))

Zero == <<0, 1>>

\* Precision with a fault: a type with no predicted span scores 1
Precision_OneOnEmpty(c) ==
    IF c.tp + c.fp = 0 THEN <<1, 1>> ELSE <<c.tp, c.tp + c.fp>>

\* tp / (tp + fp), 0 when the denominator is 0
Precision(c) ==
    IF c.tp + c.fp = 0 THEN Zero ELSE <<c.tp, c.tp + c.fp>>

\* tp / (tp + fn), 0 when the denominator is 0
Recall(c) ==
    IF c.tp + c.fn = 0 THEN Zero ELSE <<c.tp, c.tp + c.fn>>

\* 2 * p * r / (p + r), 0 when the denominator is 0
F1(p, r) ==
    IF p[1] * r[2] + r[1] * p[2] = 0 THEN Zero
    ELSE <<2 * p[1] * r[1], p[1] * r[2] + r[1] * p[2]>>

\* the sum of one counter over a set of registered types
RECURSIVE Sum(_, _, _)
Sum(m, types, op) ==
    IF types = {} THEN 0
    ELSE LET t == CHOOSE x \in types : TRUE
         IN  m[t][op] + Sum(m, types \ {t}, op)

\* the counters summed over all registered types
MicroTotals(m) ==
    [tp |-> Sum(m, DOMAIN m, "tp"), fp |-> Sum(m, DOMAIN m, "fp"),
     fn |-> Sum(m, DOMAIN m, "fn")]

\* the mean of the scores of the registered types
RECURSIVE ScoreSum(_, _)
ScoreSum(score, types) ==
    IF types = {} THEN Zero
    ELSE LET t == CHOOSE x \in types : TRUE
             rest == ScoreSum(score, types \ {t})
         IN  <<score[t][1] * rest[2] + rest[1] * score[t][2], score[t][2] * rest[2]>>

Mean(score) ==
    IF DOMAIN score = {} THEN Zero
    ELSE <<ScoreSum(score, DOMAIN score)[1],
           ScoreSum(score, DOMAIN score)[2] * Cardinality(DOMAIN score)>>

\* Report with a fault: the aggregate is the mean of the per-type scores
Report_MacroAverage(m) ==
    [made |-> TRUE,
     precision |-> [t \in DOMAIN m |-> Precision(m[t])],
     recall |-> [t \in DOMAIN m |-> Recall(m[t])],
     f1 |-> [t \in DOMAIN m |-> F1(Precision(m[t]), Recall(m[t]))],
     micro_precision |-> Mean([t \in DOMAIN m |-> Precision(m[t])]),
     micro_recall |-> Mean([t \in DOMAIN m |-> Recall(m[t])]),
     micro_f1 |-> Mean([t \in DOMAIN m |-> F1(Precision(m[t]), Recall(m[t]))])]

\* what report() and micro_avg_f1() give: the scores per type, and the
\* scores of the summed counters
Report(m) ==
    [made |-> TRUE,
     precision |-> [t \in DOMAIN m |-> Precision(m[t])],
     recall |-> [t \in DOMAIN m |-> Recall(m[t])],
     f1 |-> [t \in DOMAIN m |-> F1(Precision(m[t]), Recall(m[t]))],
     micro_precision |-> Precision(MicroTotals(m)),
     micro_recall |-> Recall(MicroTotals(m)),
     micro_f1 |-> F1(Precision(MicroTotals(m)), Recall(MicroTotals(m)))]

(***************************************************************************)
(* Helpers of the decode routines.                                         *)
(***************************************************************************)
\* the batch the running decode call was given
Batch == IF pc = "gold" THEN gold ELSE predicted

Decoding == pc \in {"gold", "pred"}

\* range(len(batch)) and range(len(batch[context_index])) still have a value
InRow ==
    /\ Decoding
    /\ context_index < Len(Batch)
    /\ tok_index < Len(Batch[context_index + 1])

\* self.gold[context_index][tok_index] exists
GoldDefined ==
    /\ context_index < Len(gold)
    /\ tok_index < Len(gold[context_index + 1])

\* batch[context_index][tok_index]
CurTag == Batch[context_index + 1][tok_index + 1]

\* Ignored with a fault: the mask is read from the decoded batch, not from gold
Ignored_ReadsBatch == CurTag = IGNORE

\* self.gold[context_index][tok_index] == -100
Ignored == gold[context_index + 1][tok_index + 1] = IGNORE

\* EntityTag with a fault: every context gets the entity of the first one
EntityTag_FirstContext == IF dataset # NoDataset THEN dataset[1] ELSE TAG

\* self.dataset.contexts[context_index].entity if self.dataset else "TAG"
EntityTag == IF dataset # NoDataset THEN dataset[context_index + 1] ELSE TAG

\* NewSpan with a fault: the placeholder type is used with a dataset too
NewSpan_PlaceholderType == Span(context_index, tok_index, tok_index, TAG)

\* Span(context_index, tok_index, tok_index, tag)
NewSpan == Span(context_index, tok_index, tok_index, EntityTag)

\* SetEnd with a fault: the assignment goes to the start of the span
SetEnd_MovesStart(spans, k, p) == [spans EXCEPT ![k].start = p]

\* prev_span.end = tok_index, seen through the list that holds the span
SetEnd(spans, k, p) == [spans EXCEPT ![k].end = p]

\* the decode loop moves to the next token
NextToken ==
    /\ tok_index' = tok_index + 1
    /\ UNCHANGED <<inputs, others, metric, report, pc, context_index, batch_spans, gold_entity_spans,
                   predicted_entity_spans, entity_metric>>

(***************************************************************************)
(* get_spans: the schemes with num_labels # 2.                             *)
(***************************************************************************)
GetSpansAt == InRow /\ num_labels # 2

\* line 49 raises IndexError: the gold mask has no such row or position
GetSpansIndexError ==
    /\ GetSpansAt
    /\ ~GoldDefined
    /\ pc' = "error"
    /\ UNCHANGED <<inputs, others, metric, report, context_index, tok_index, batch_spans, context_spans,
                   prev_span, gold_entity_spans, predicted_entity_spans, entity_metric>>

\* GetSpansIgnored with a fault: the ignored position is skipped and the
\* open span is kept
GetSpansIgnored_KeepsOpen ==
    /\ GetSpansAt
    /\ GoldDefined
    /\ Ignored
    /\ UNCHANGED <<prev_span, context_spans>>
    /\ NextToken

GetSpansIgnored ==
    /\ GetSpansAt
    /\ GoldDefined
    /\ Ignored
    /\ prev_span' = 0
    /\ UNCHANGED context_spans
    /\ NextToken

GetSpansB ==
    /\ GetSpansAt
    /\ GoldDefined
    /\ ~Ignored
    /\ CurTag = b_tag_index
    /\ context_spans' = Append(context_spans, NewSpan)
    /\ prev_span' = Len(context_spans) + 1
    /\ NextToken

\* GetSpansS with a fault: S closes the open span and creates none
GetSpansS_NoAppend ==
    /\ GetSpansAt
    /\ GoldDefined
    /\ ~Ignored
    /\ CurTag # b_tag_index
    /\ CurTag = s_tag_index
    /\ prev_span' = 0
    /\ UNCHANGED context_spans
    /\ NextToken

\* GetSpansS with a fault: the new span stays the open span
GetSpansS_StaysOpen ==
    /\ GetSpansAt
    /\ GoldDefined
    /\ ~Ignored
    /\ CurTag # b_tag_index
    /\ CurTag = s_tag_index
    /\ context_spans' = Append(context_spans, NewSpan)
    /\ prev_span' = Len(context_spans) + 1
    /\ NextToken

GetSpansS ==
    /\ GetSpansAt
    /\ GoldDefined
    /\ ~Ignored
    /\ CurTag # b_tag_index
    /\ CurTag = s_tag_index
    /\ context_spans' = Append(context_spans, NewSpan)
    /\ prev_span' = 0
    /\ NextToken

\* GetSpansI with a fault: the test of num_labels is missing, I moves the
\* end under every scheme
GetSpansI_AlwaysExtends ==
    /\ GetSpansAt
    /\ GoldDefined
    /\ ~Ignored
    /\ CurTag \notin {b_tag_index, s_tag_index}
    /\ prev_span # 0
    /\ CurTag = i_tag_index
    /\ IF EntityTag = context_spans[prev_span].tag
       THEN /\ context_spans' = SetEnd(context_spans, prev_span, tok_index)
            /\ UNCHANGED prev_span
       ELSE /\ prev_span' = 0
            /\ UNCHANGED context_spans
    /\ NextToken

\* GetSpansI with a fault: outside BIO an I ends the tracking of the span
GetSpansI_ClosesSpan ==
    /\ GetSpansAt
    /\ GoldDefined
    /\ ~Ignored
    /\ CurTag \notin {b_tag_index, s_tag_index}
    /\ prev_span # 0
    /\ CurTag = i_tag_index
    /\ IF EntityTag = context_spans[prev_span].tag /\ num_labels = 3
       THEN /\ context_spans' = SetEnd(context_spans, prev_span, tok_index)
            /\ UNCHANGED prev_span
       ELSE /\ prev_span' = 0
            /\ UNCHANGED context_spans
    /\ NextToken

GetSpansI ==
    /\ GetSpansAt
    /\ GoldDefined
    /\ ~Ignored
    /\ CurTag \notin {b_tag_index, s_tag_index}
    /\ prev_span # 0
    /\ CurTag = i_tag_index
    /\ IF EntityTag = context_spans[prev_span].tag
       THEN /\ context_spans' = IF num_labels = 3
                                THEN SetEnd(context_spans, prev_span, tok_index)
                                ELSE context_spans
            /\ UNCHANGED prev_span
       ELSE /\ prev_span' = 0
            /\ UNCHANGED context_spans
    /\ NextToken

\* GetSpansE with a fault: E keeps the span open but does not move its end
GetSpansE_NoExtend ==
    /\ GetSpansAt
    /\ GoldDefined
    /\ ~Ignored
    /\ CurTag \notin {b_tag_index, s_tag_index}
    /\ ~(prev_span # 0 /\ CurTag = i_tag_index)
    /\ prev_span # 0
    /\ CurTag = e_tag_index
    /\ IF EntityTag = context_spans[prev_span].tag
       THEN UNCHANGED <<context_spans, prev_span>>
       ELSE /\ prev_span' = 0
            /\ UNCHANGED context_spans
    /\ NextToken

GetSpansE ==
    /\ GetSpansAt
    /\ GoldDefined
    /\ ~Ignored
    /\ CurTag \notin {b_tag_index, s_tag_index}
    /\ ~(prev_span # 0 /\ CurTag = i_tag_index)
    /\ prev_span # 0
    /\ CurTag = e_tag_index
    /\ IF EntityTag = context_spans[prev_span].tag
       THEN /\ context_spans' = SetEnd(context_spans, prev_span, tok_index)
            /\ UNCHANGED prev_span
       ELSE /\ prev_span' = 0
            /\ UNCHANGED context_spans
    /\ NextToken

GetSpansElse ==
    /\ GetSpansAt
    /\ GoldDefined
    /\ ~Ignored
    /\ CurTag \notin {b_tag_index, s_tag_index}
    /\ ~(prev_span # 0 /\ CurTag = i_tag_index)
    /\ ~(prev_span # 0 /\ CurTag = e_tag_index)
    /\ prev_span' = 0
    /\ UNCHANGED context_spans
    /\ NextToken

(***************************************************************************)
(* get_spans_for_2_tag_scheme: the BO scheme, num_labels = 2.              *)
(***************************************************************************)
TwoTagAt == InRow /\ num_labels = 2

\* line 87 raises IndexError: the gold mask has no such row or position
TwoTagIndexError ==
    /\ TwoTagAt
    /\ ~GoldDefined
    /\ pc' = "error"
    /\ UNCHANGED <<inputs, others, metric, report, context_index, tok_index, batch_spans, context_spans,
                   prev_span, gold_entity_spans, predicted_entity_spans, entity_metric>>

TwoTagIgnored ==
    /\ TwoTagAt
    /\ GoldDefined
    /\ Ignored
    /\ prev_span' = 0
    /\ UNCHANGED context_spans
    /\ NextToken

\* TwoTagB with a fault: every B starts a span of its own, as get_spans does
TwoTagB_NoCoalesce ==
    /\ TwoTagAt
    /\ GoldDefined
    /\ ~Ignored
    /\ CurTag = b_tag_index
    /\ context_spans' = Append(context_spans, NewSpan)
    /\ prev_span' = Len(context_spans) + 1
    /\ NextToken

TwoTagB ==
    /\ TwoTagAt
    /\ GoldDefined
    /\ ~Ignored
    /\ CurTag = b_tag_index
    /\ IF prev_span # 0 /\ EntityTag = context_spans[prev_span].tag
       THEN /\ context_spans' = SetEnd(context_spans, prev_span, tok_index)
            /\ UNCHANGED prev_span
       ELSE /\ context_spans' = Append(context_spans, NewSpan)
            /\ prev_span' = Len(context_spans) + 1
    /\ NextToken

TwoTagElse ==
    /\ TwoTagAt
    /\ GoldDefined
    /\ ~Ignored
    /\ CurTag # b_tag_index
    /\ prev_span' = 0
    /\ UNCHANGED context_spans
    /\ NextToken

(***************************************************************************)
(* Both routines: the end of a row, and the return.                        *)
(***************************************************************************)
\* EndOfRow with a fault: the list and the open span are created once,
\* before the loop over the rows, and never again
EndOfRow_SharedList ==
    /\ Decoding
    /\ context_index < Len(Batch)
    /\ tok_index = Len(Batch[context_index + 1])
    /\ batch_spans' = Append(batch_spans, context_spans)
    /\ context_index' = context_index + 1
    /\ tok_index' = 0
    /\ UNCHANGED <<inputs, others, metric, report, pc, context_spans, prev_span,
                   gold_entity_spans, predicted_entity_spans, entity_metric>>

\* batch_spans.append(context_spans); the next row starts with an empty
\* list and no open span
EndOfRow ==
    /\ Decoding
    /\ context_index < Len(Batch)
    /\ tok_index = Len(Batch[context_index + 1])
    /\ batch_spans' = Append(batch_spans, context_spans)
    /\ context_index' = context_index + 1
    /\ tok_index' = 0
    /\ context_spans' = << >>
    /\ prev_span' = 0
    /\ UNCHANGED <<inputs, others, metric, report, pc, gold_entity_spans, predicted_entity_spans, entity_metric>>

\* return batch_spans, assigned to self.gold_entity_spans; the predicted
\* batch is decoded next
ReturnGold ==
    /\ pc = "gold"
    /\ context_index = Len(gold)
    /\ gold_entity_spans' = batch_spans
    /\ pc' = "pred"
    /\ batch_spans' = << >>
    /\ context_index' = 0
    /\ UNCHANGED <<inputs, others, metric, report, tok_index, context_spans, prev_span,
                   predicted_entity_spans, entity_metric>>

\* return batch_spans, assigned to self.predicted_entity_spans;
\* calc_entity_metrics runs next
ReturnPredicted ==
    /\ pc = "pred"
    /\ context_index = Len(predicted)
    /\ predicted_entity_spans' = batch_spans
    /\ pc' = "metrics"
    /\ batch_spans' = << >>
    /\ context_index' = 0
    /\ metric' = NewMetric(Tags)
    /\ UNCHANGED <<inputs, others, report, tok_index, context_spans, prev_span,
                   gold_entity_spans, entity_metric>>

(***************************************************************************)
(* calc_entity_metrics.                                                    *)
(***************************************************************************)
\* span in spans
In(span, spans) == \E k \in 1..Len(spans) : SpanEq(span, spans[k])

Min(a, b) == IF a <= b THEN a ELSE b

\* PredictedCalls with a fault: a predicted span counts as found when a
\* gold span starts where it starts
PredictedCalls_StartOnly(gold_sent_spans, predicted_sent_spans) ==
    [k \in 1..Len(predicted_sent_spans) |->
        [op |-> IF \E j \in 1..Len(gold_sent_spans) :
                      gold_sent_spans[j].start = predicted_sent_spans[k].start
                THEN "tp" ELSE "fp",
         span |-> predicted_sent_spans[k]]]

\* PredictedCalls with a fault: a predicted span counts as found only when
\* the gold list holds it at the same position
PredictedCalls_SamePosition(gold_sent_spans, predicted_sent_spans) ==
    [k \in 1..Len(predicted_sent_spans) |->
        [op |-> IF k <= Len(gold_sent_spans) /\ SpanEq(predicted_sent_spans[k], gold_sent_spans[k])
                THEN "tp" ELSE "fp",
         span |-> predicted_sent_spans[k]]]

\* the calls of the first loop: add_tp or add_fp for every predicted span
PredictedCalls(gold_sent_spans, predicted_sent_spans) ==
    [k \in 1..Len(predicted_sent_spans) |->
        [op |-> IF In(predicted_sent_spans[k], gold_sent_spans) THEN "tp" ELSE "fp",
         span |-> predicted_sent_spans[k]]]

\* GoldCalls with a fault: the membership test is missing, every gold span
\* is counted as missed
GoldCalls_NoMembershipTest(gold_sent_spans, predicted_sent_spans) ==
    [k \in 1..Len(gold_sent_spans) |-> [op |-> "fn", span |-> gold_sent_spans[k]]]

\* the calls of the second loop: add_fn for every gold span not predicted
RECURSIVE GoldCalls(_, _)
GoldCalls(gold_sent_spans, predicted_sent_spans) ==
    IF gold_sent_spans = << >> THEN << >>
    ELSE (IF ~In(Head(gold_sent_spans), predicted_sent_spans)
          THEN <<[op |-> "fn", span |-> Head(gold_sent_spans)]>>
          ELSE << >>)
         \o GoldCalls(Tail(gold_sent_spans), predicted_sent_spans)

\* one iteration of the loop over zip(gold_entity_spans, predicted_entity_spans)
CalcContext ==
    /\ pc = "metrics"
    /\ context_index < Min(Len(gold_entity_spans), Len(predicted_entity_spans))
    /\ entity_metric' = entity_metric
          \o PredictedCalls(gold_entity_spans[context_index + 1],
                            predicted_entity_spans[context_index + 1])
          \o GoldCalls(gold_entity_spans[context_index + 1],
                       predicted_entity_spans[context_index + 1])
    /\ metric' = AddAll(metric, SubSeq(entity_metric', Len(entity_metric) + 1,
                                       Len(entity_metric')))
    /\ context_index' = context_index + 1
    /\ UNCHANGED <<inputs, others, report, pc, tok_index, batch_spans, context_spans, prev_span,
                   gold_entity_spans, predicted_entity_spans>>

\* zip is exhausted: return entity_metric, the constructor is done
ReturnMetric ==
    /\ pc = "metrics"
    /\ context_index = Min(Len(gold_entity_spans), Len(predicted_entity_spans))
    /\ pc' = "done"
    /\ UNCHANGED <<inputs, others, metric, report, context_index, tok_index, batch_spans, context_spans,
                   prev_span, gold_entity_spans, predicted_entity_spans, entity_metric>>

(***************************************************************************)
(* NerQAExecutor.compute_metrics: the caller of the constructor.           *)
(***************************************************************************)
\* evaluator.entity_metric.report() and .micro_avg_f1() are read
ComputeMetrics ==
    /\ pc = "done"
    /\ ~report.made
    /\ report' = Report(metric)
    /\ UNCHANGED <<inputs, others, metric, pc, context_index, tok_index, batch_spans,
                   context_spans, prev_span, gold_entity_spans,
                   predicted_entity_spans, entity_metric>>

Next ==
    \/ GetSpansIndexError
    \/ GetSpansIgnored
    \/ GetSpansB
    \/ GetSpansS
    \/ GetSpansI
    \/ GetSpansE
    \/ GetSpansElse
    \/ TwoTagIndexError
    \/ TwoTagIgnored
    \/ TwoTagB
    \/ TwoTagElse
    \/ EndOfRow
    \/ ReturnGold
    \/ ReturnPredicted
    \/ CalcContext
    \/ ReturnMetric
    \/ ComputeMetrics

Spec == Init /\ [][Next]_vars

(***************************************************************************)
(* The Metric exercised on its own: any sequence of add_tp, add_fp and     *)
(* add_fn calls, at most MaxCalls per entity type, and then the report.    *)
(***************************************************************************)
MetricTypes == {"DISEASE", "GENE"}

\* the calls made for one type so far
CallsFor(m, t) == IF t \in DOMAIN m THEN m[t].tp + m[t].fp + m[t].fn ELSE 0

InitMetric ==
    /\ Given(3, << >>, << >>, NoDataset)
    /\ pc = "metric"
    /\ context_index = 0
    /\ tok_index = 0
    /\ batch_spans = << >>
    /\ context_spans = << >>
    /\ prev_span = 0
    /\ gold_entity_spans = << >>
    /\ predicted_entity_spans = << >>
    /\ entity_metric = << >>
    /\ \E tags \in {{"DISEASE"}, MetricTypes} : metric = NewMetric(tags)
    /\ report = NoReport
    /\ OthersIdle

MetricFrame ==
    UNCHANGED <<inputs, others, pc, context_index, tok_index, batch_spans, context_spans,
                prev_span, gold_entity_spans, predicted_entity_spans, entity_metric>>

\* the Metric takes calls until it is read
Accumulating == pc = "metric" /\ ~report.made

\* add_tp(span) for a span of some type
AddTp ==
    /\ Accumulating
    /\ \E t \in MetricTypes :
          /\ CallsFor(metric, t) < MaxCalls
          /\ metric' = Add(metric, "tp", t)
    /\ UNCHANGED report
    /\ MetricFrame

\* add_fp(span) for a span of some type
AddFp ==
    /\ Accumulating
    /\ \E t \in MetricTypes :
          /\ CallsFor(metric, t) < MaxCalls
          /\ metric' = Add(metric, "fp", t)
    /\ UNCHANGED report
    /\ MetricFrame

\* add_fn(span) for a span of some type
AddFn ==
    /\ Accumulating
    /\ \E t \in MetricTypes :
          /\ CallsFor(metric, t) < MaxCalls
          /\ metric' = Add(metric, "fn", t)
    /\ UNCHANGED report
    /\ MetricFrame

\* report() and micro_avg_f1() are read
MetricReport ==
    /\ Accumulating
    /\ report' = Report(metric)
    /\ UNCHANGED metric
    /\ MetricFrame

NextMetric ==
    \/ AddTp
    \/ AddFp
    \/ AddFn
    \/ MetricReport

SpecMetric == InitMetric /\ [][NextMetric]_vars

(***************************************************************************)
(* What the properties speak about: the rows decoded so far.               *)
(***************************************************************************)
Range(seq) == {seq[k] : k \in 1..Len(seq)}

\* the lists of the gold rows and of the predicted rows decoded so far
GoldLists == IF pc = "gold" THEN batch_spans ELSE gold_entity_spans

PredLists == IF pc = "pred" THEN batch_spans ELSE predicted_entity_spans

\* the gold row that masks row c (1-based) of a batch
MaskOf(c) == IF c <= Len(gold) THEN gold[c] ELSE << >>

\* a decoded row: its tags, its mask, its span list, and the number of its
\* positions that were processed (all of them)
DecodedGold ==
    {[side |-> "gold", tags |-> gold[c], mask |-> gold[c], spans |-> GoldLists[c],
      upto |-> Len(gold[c])] : c \in 1..Len(GoldLists)}

DecodedPredicted ==
    {[side |-> "pred", tags |-> predicted[c], mask |-> MaskOf(c), spans |-> PredLists[c],
      upto |-> Len(predicted[c])] : c \in 1..Len(PredLists)}

Decoded == DecodedGold \cup DecodedPredicted

\* the row being decoded, after the prefix of tok_index positions
InProgress ==
    IF Decoding /\ context_index < Len(Batch)
    THEN {[side |-> pc, tags |-> Batch[context_index + 1], mask |-> MaskOf(context_index + 1),
           spans |-> context_spans, upto |-> tok_index]}
    ELSE {}

Prefixes == Decoded \cup InProgress

\* position p (0-based) of the row is not ignored and carries tag t
Has(d, p, t) == d.mask[p + 1] # IGNORE /\ d.tags[p + 1] = t

NoIgnored(d) == \A p \in 1..Len(d.tags) : d.mask[p] # IGNORE

\* the boundaries of a span list, in order
Bounds(spans) == [k \in 1..Len(spans) |-> <<spans[k].start, spans[k].end>>]

\* every span the evaluator holds
AllSpans == UNION {Range(d.spans) : d \in Prefixes}

(***************************************************************************)
(* C1.  Ignore-masking: under every scheme, in the gold and in the         *)
(* predicted decoding, no span starts or ends at a position whose gold     *)
(* value is -100, whatever tag the decoded row carries there.              *)
(***************************************************************************)
NotIgnoredAt(c, p) ==
    /\ c < Len(gold)
    /\ p < Len(gold[c + 1])
    /\ gold[c + 1][p + 1] # IGNORE

C1_IgnoreMasking ==
    \A s \in AllSpans :
       /\ NotIgnoredAt(s.context_index, s.start)
       /\ NotIgnoredAt(s.context_index, s.end)

\* a predicted row was decoded that carries B at an ignored position and
\* still yields a span elsewhere
C1_Witness ==
    /\ pc = "done"
    /\ \E d \in DecodedPredicted :
          /\ d.spans # << >>
          /\ \E p \in 1..Len(d.tags) : d.mask[p] = IGNORE /\ d.tags[p] = b_tag_index

(***************************************************************************)
(* C2.  BIOE, missing E: under num_labels = 4 the tags [B, I, O] of a      *)
(* context with no ignored position decode to a span with start 0 and      *)
(* end 1.  (The statement as claimed; the code leaves the end at 0.)       *)
(***************************************************************************)
IsBIO_MissingE(d) ==
    /\ num_labels = 4
    /\ d.tags = <<b_tag_index, i_tag_index, none_tag_index>>
    /\ NoIgnored(d)

C2_MissingE_AsClaimed ==
    \A d \in Decoded :
       IsBIO_MissingE(d) => \E s \in Range(d.spans) : s.start = 0 /\ s.end = 1

\* C2 as amended: the tags [B, I, O] decode to exactly one span, with
\* start 0 and end 0: under num_labels = 4 an I never moves the end.
C2_MissingE_Amended ==
    \A d \in Decoded :
       IsBIO_MissingE(d) => Bounds(d.spans) = << <<0, 0>> >>

C2_Witness ==
    /\ \E d \in DecodedGold : IsBIO_MissingE(d)
    /\ \E d \in DecodedPredicted : IsBIO_MissingE(d)

(***************************************************************************)
(* C3.  BO coalescing: under num_labels = 2 the spans of a row are exactly *)
(* the maximal runs of consecutive non-ignored positions tagged B, in      *)
(* order; [B, B, O, B] decodes to (0,1) and (3,3).                         *)
(***************************************************************************)
\* the maximal runs of B among the first d.upto positions
MaximalRuns(d) ==
    {r \in (0..(d.upto - 1)) \X (0..(d.upto - 1)) :
        /\ r[1] <= r[2]
        /\ \A p \in r[1]..r[2] : Has(d, p, b_tag_index)
        /\ r[1] = 0 \/ ~Has(d, r[1] - 1, b_tag_index)
        /\ r[2] = d.upto - 1 \/ ~Has(d, r[2] + 1, b_tag_index)}

Ordered(spans) ==
    \A j, k \in 1..Len(spans) : j < k => spans[j].start < spans[k].start

C3_BOCoalescing ==
    num_labels = 2 =>
       \A d \in Prefixes :
          /\ Range(Bounds(d.spans)) = MaximalRuns(d)
          /\ Ordered(d.spans)
          /\ (d.upto = 4 /\ NoIgnored(d)
              /\ d.tags = <<b_tag_index, b_tag_index, none_tag_index, b_tag_index>>)
             => Bounds(d.spans) = << <<0, 1>>, <<3, 3>> >>

C3_Witness ==
    /\ num_labels = 2
    /\ \E d \in Decoded :
          /\ d.tags = <<b_tag_index, b_tag_index, none_tag_index, b_tag_index>>
          /\ NoIgnored(d)
          /\ Len(d.spans) = 2

(***************************************************************************)
(* C4.  BIO growth: under num_labels = 3 a non-ignored B at p followed by  *)
(* k consecutive non-ignored I and then a non-I token (or the end of the   *)
(* row, or an ignored position) decodes to exactly one span (p, p + k) for *)
(* that run.  (The statement as claimed; the code lets a token that        *)
(* carries the index of E move the end too.)                               *)
(***************************************************************************)
\* the number of consecutive non-ignored I tokens from position p on
RECURSIVE RunOfI(_, _)
RunOfI(d, p) ==
    IF p < d.upto /\ Has(d, p, i_tag_index) THEN 1 + RunOfI(d, p + 1) ELSE 0

C4_BIOGrowth_AsClaimed ==
    num_labels = 3 =>
       \A d \in Decoded :
          \A p \in 0..(d.upto - 1) :
             Has(d, p, b_tag_index) =>
                /\ Cardinality({k \in 1..Len(d.spans) : d.spans[k].start = p}) = 1
                /\ \A s \in Range(d.spans) :
                      s.start = p => s.end = p + RunOfI(d, p + 1)

(***************************************************************************)
(* C5.  BIOE closing: under num_labels = 4 the tags [B, I, E, O] of a      *)
(* context with no ignored position decode to exactly one span, (0, 2).    *)
(***************************************************************************)
IsBIEO(d) ==
    /\ num_labels = 4
    /\ d.tags = <<b_tag_index, i_tag_index, e_tag_index, none_tag_index>>
    /\ NoIgnored(d)

C5_BIOEClosing ==
    \A d \in Decoded : IsBIEO(d) => Bounds(d.spans) = << <<0, 2>> >>

C5_Witness == \E d \in Decoded : IsBIEO(d) /\ pc = "done"

(***************************************************************************)
(* C6.  Span-list invariant: after any prefix of a row and at the end of   *)
(* the pass, in both routines and for every num_labels, every span has     *)
(* start <= end and consecutive spans s, t of a list have s.end < t.start. *)
(***************************************************************************)
C6_SpanListInvariant ==
    \A d \in Prefixes :
       /\ \A k \in 1..Len(d.spans) : d.spans[k].start <= d.spans[k].end
       /\ \A k \in 1..(Len(d.spans) - 1) : d.spans[k].end < d.spans[k + 1].start

\* a decoded list of two adjacent spans, the first of them longer than one
\* token
C6_Witness ==
    \E d \in Decoded :
       /\ Len(d.spans) >= 2
       /\ d.spans[1].start < d.spans[1].end
       /\ d.spans[1].end + 1 = d.spans[2].start

(***************************************************************************)
(* C7.  Scoring rule: for each context, calc_entity_metrics calls add_tp   *)
(* once for every predicted span that equals (context index, start, end,   *)
(* type) some gold span of the context, add_fp once for every other        *)
(* predicted span, add_fn once for every gold span that equals no          *)
(* predicted span, and makes no other call; a predicted span one position  *)
(* off the only gold span gives tp = 0, fp = 1, fn = 1.                    *)
(***************************************************************************)
\* the contexts (1-based) the loop over zip has processed
Scored == IF pc \in {"metrics", "done"} THEN 1..context_index ELSE {}

\* the number of calls of add_<op> with this span
Calls(op, span) ==
    Cardinality({k \in 1..Len(entity_metric) :
                    entity_metric[k].op = op /\ entity_metric[k].span = span})

\* the number of calls of add_<op>
Count(op) == Cardinality({k \in 1..Len(entity_metric) : entity_metric[k].op = op})

Abs(x) == IF x >= 0 THEN x ELSE 0 - x

\* one gold span and one predicted span that differ by one position in
\* one boundary
OffByOne ==
    /\ Len(gold_entity_spans) = 1
    /\ Len(predicted_entity_spans) = 1
    /\ Len(gold_entity_spans[1]) = 1
    /\ Len(predicted_entity_spans[1]) = 1
    /\ Abs(gold_entity_spans[1][1].start - predicted_entity_spans[1][1].start)
          + Abs(gold_entity_spans[1][1].end - predicted_entity_spans[1][1].end) = 1

C7_ScoringRule ==
    /\ \A c \in Scored :
          /\ \A s \in Range(predicted_entity_spans[c]) :
                IF s \in Range(gold_entity_spans[c])
                THEN Calls("tp", s) = 1 /\ Calls("fp", s) = 0
                ELSE Calls("tp", s) = 0 /\ Calls("fp", s) = 1
          /\ \A g \in Range(gold_entity_spans[c]) :
                Calls("fn", g) = IF g \in Range(predicted_entity_spans[c]) THEN 0 ELSE 1
    /\ \A k \in 1..Len(entity_metric) :
          LET call == entity_metric[k]
              c == call.span.context_index + 1
          IN  /\ c \in Scored
              /\ call.op \in {"tp", "fp"} => call.span \in Range(predicted_entity_spans[c])
              /\ call.op = "fn" => call.span \in Range(gold_entity_spans[c])
    /\ (pc = "done" /\ OffByOne) => Count("tp") = 0 /\ Count("fp") = 1 /\ Count("fn") = 1

\* an evaluation of two contexts that made a tp, an fp and an fn call
C7_Witness ==
    /\ pc = "done"
    /\ context_index = 2
    /\ Count("tp") >= 1
    /\ Count("fp") >= 1
    /\ Count("fn") >= 1

(***************************************************************************)
(* C8.  Shape mismatch fails fast: when gold and predicted differ in the   *)
(* number of contexts, or a predicted row and its gold row differ in       *)
(* length, the constructor ends in an error and produces no metric.  (The  *)
(* statement as claimed; the code completes on a shorter prediction.)      *)
(***************************************************************************)
ShapeMismatch ==
    \/ Len(gold) # Len(predicted)
    \/ \E c \in 1..Min(Len(gold), Len(predicted)) : Len(gold[c]) # Len(predicted[c])

C8_ShapeMismatchFailsFast == ShapeMismatch => pc # "done"

(***************************************************************************)
(* C9.  Out-of-scheme tags act as none: at a non-ignored position a tag    *)
(* that is not one of the classes 0 .. num_labels - 1 of the active scheme *)
(* creates no span, extends no span, clears the open span and does not     *)
(* raise.  (The statement as claimed; get_spans gives the indices of E and *)
(* S their meaning under every num_labels.)                                *)
(***************************************************************************)
OutOfScheme ==
    /\ InRow
    /\ GoldDefined
    /\ ~Ignored
    /\ CurTag \notin SchemeTags(num_labels)

C9_OutOfSchemeActsAsNone ==
    [][OutOfScheme => /\ context_spans' = context_spans
                      /\ prev_span' = 0
                      /\ pc' # "error"]_vars

(***************************************************************************)
(* C10.  Append-on-create, no coalescing outside BO: under num_labels # 2, *)
(* after any prefix of a row the list holds exactly one span for every     *)
(* non-ignored position tagged B or S, starting there, in order (no other  *)
(* tag creates a span and none is removed); a B with no following I or E   *)
(* yields (p, p).                                                          *)
(***************************************************************************)
\* the processed positions that create a span
Creating(d) ==
    {p \in 0..(d.upto - 1) : Has(d, p, b_tag_index) \/ Has(d, p, s_tag_index)}

\* position p of a decoded row is followed by a non-ignored I or E
Continued(d, p) ==
    /\ p + 1 < Len(d.tags)
    /\ Has(d, p + 1, i_tag_index) \/ Has(d, p + 1, e_tag_index)

C10_AppendOnCreate ==
    num_labels # 2 =>
       /\ \A d \in Prefixes :
             /\ Len(d.spans) = Cardinality(Creating(d))
             /\ {s.start : s \in Range(d.spans)} = Creating(d)
             /\ Ordered(d.spans)
       /\ \A d \in Decoded :
             \A s \in Range(d.spans) :
                (Has(d, s.start, b_tag_index) /\ ~Continued(d, s.start)) => s.end = s.start

\* a row with two adjacent B and an S, decoded to three spans
C10_Witness ==
    /\ num_labels # 2
    /\ \E d \in Decoded :
          /\ Len(d.spans) = 3
          /\ \E p \in 0..(Len(d.tags) - 2) :
                Has(d, p, b_tag_index) /\ Has(d, p + 1, b_tag_index)
          /\ \E p \in 0..(Len(d.tags) - 1) : Has(d, p, s_tag_index)

(***************************************************************************)
(* C11.  Micro-average is sum-then-divide: the micro precision, recall and *)
(* F1 are those of the tp, fp and fn summed over all registered types,     *)
(* not the mean of the per-type scores; for (tp, fp, fn) = (8, 2, 0) and   *)
(* (2, 0, 8) the micro precision is 10/12 and the micro recall is 10/18.   *)
(***************************************************************************)
\* a counter of one type, 0 for a type that is not registered
CountOf(t, op) == IF t \in DOMAIN metric THEN metric[t][op] ELSE 0

\* a counter summed over the types that occur
Total(op) == CountOf("TAG", op) + CountOf("DISEASE", op) + CountOf("GENE", op)

\* the score is the number n / d
Is(score, n, d) == score[1] * d = n * score[2]

TheExample ==
    /\ DOMAIN metric = {"DISEASE", "GENE"}
    /\ metric["DISEASE"] = [tp |-> 8, fp |-> 2, fn |-> 0]
    /\ metric["GENE"] = [tp |-> 2, fp |-> 0, fn |-> 8]

C11_MicroIsSumThenDivide ==
    report.made =>
       /\ Total("tp") + Total("fp") > 0
             => Is(report.micro_precision, Total("tp"), Total("tp") + Total("fp"))
       /\ Total("tp") + Total("fn") > 0
             => Is(report.micro_recall, Total("tp"), Total("tp") + Total("fn"))
       /\ Total("tp") > 0
             => Is(report.micro_f1, 2 * Total("tp"),
                   2 * Total("tp") + Total("fp") + Total("fn"))
       /\ TheExample => /\ Is(report.micro_precision, 10, 12)
                        /\ Is(report.micro_recall, 10, 18)

C11_Witness == report.made /\ TheExample

(***************************************************************************)
(* C12.  Zero denominators yield 0: with tp + fp = 0 the precision is 0,   *)
(* with tp + fn = 0 the recall is 0, with precision + recall = 0 the F1 is *)
(* 0, per type and for the micro-average; an evaluation in which neither   *)
(* gold nor predicted holds a span returns micro_f1 = 0.                   *)
(***************************************************************************)
IsZero(score) == score[1] = 0 /\ score[2] > 0

NoSpans ==
    /\ \A c \in 1..Len(gold_entity_spans) : gold_entity_spans[c] = << >>
    /\ \A c \in 1..Len(predicted_entity_spans) : predicted_entity_spans[c] = << >>

C12_ZeroDenominators ==
    report.made =>
       /\ \A t \in DOMAIN metric :
             /\ metric[t].tp + metric[t].fp = 0 => IsZero(report.precision[t])
             /\ metric[t].tp + metric[t].fn = 0 => IsZero(report.recall[t])
             /\ (IsZero(report.precision[t]) /\ IsZero(report.recall[t]))
                   => IsZero(report.f1[t])
       /\ Total("tp") + Total("fp") = 0 => IsZero(report.micro_precision)
       /\ Total("tp") + Total("fn") = 0 => IsZero(report.micro_recall)
       /\ (IsZero(report.micro_precision) /\ IsZero(report.micro_recall))
             => IsZero(report.micro_f1)
       /\ NoSpans => IsZero(report.micro_f1)

\* an evaluation without any span was reported, its rows not empty
C12_Witness ==
    /\ report.made
    /\ pc = "done"
    /\ NoSpans
    /\ Len(gold) >= 1
    /\ Len(predicted) >= 1
    /\ Len(gold[1]) >= 2

(***************************************************************************)
(* C13.  Determinism: two decodings of the same tags under the same mask,  *)
(* the same num_labels and the same entity type yield span lists that are  *)
(* equal position by position in start, end and type, and in context index *)
(* when they decode the same context.  The evaluator decodes twice in one  *)
(* construction (the gold batch, then the predicted batch) and once per    *)
(* row, so the two decodings compared are any two rows it has decoded.     *)
(* Tags at ignored positions are never read, so the rows need to agree     *)
(* only where the mask does not ignore.                                    *)
(***************************************************************************)
\* the rows decoded so far: the side and the 1-based context
RowsDecoded ==
    ({"gold"} \X (1..Len(GoldLists))) \cup ({"pred"} \X (1..Len(PredLists)))

TagsOf(r) == IF r[1] = "gold" THEN gold[r[2]] ELSE predicted[r[2]]

ListOf(r) == IF r[1] = "gold" THEN GoldLists[r[2]] ELSE PredLists[r[2]]

\* the entity type of context c (1-based)
TypeOfContext(c) == IF dataset # NoDataset THEN dataset[c] ELSE TAG

\* the two rows are the same input of the decode routine
SameDecodeInput(r1, r2) ==
    /\ Len(TagsOf(r1)) = Len(TagsOf(r2))
    /\ MaskOf(r1[2]) = MaskOf(r2[2])
    /\ Len(MaskOf(r1[2])) = Len(TagsOf(r1))
    /\ \A p \in 1..Len(TagsOf(r1)) :
          MaskOf(r1[2])[p] # IGNORE => TagsOf(r1)[p] = TagsOf(r2)[p]
    /\ TypeOfContext(r1[2]) = TypeOfContext(r2[2])

C13_Determinism ==
    \A r1 \in RowsDecoded, r2 \in RowsDecoded :
       SameDecodeInput(r1, r2) =>
          /\ Len(ListOf(r1)) = Len(ListOf(r2))
          /\ \A k \in 1..Len(ListOf(r1)) :
                /\ ListOf(r1)[k].start = ListOf(r2)[k].start
                /\ ListOf(r1)[k].end = ListOf(r2)[k].end
                /\ ListOf(r1)[k].tag = ListOf(r2)[k].tag
          /\ r1[2] = r2[2] => ListOf(r1) = ListOf(r2)

\* the same context decoded twice to a span longer than one token, the two
\* rows differing at an ignored position only
C13_Witness ==
    \E r1 \in RowsDecoded, r2 \in RowsDecoded :
       /\ r1 # r2
       /\ r1[2] = r2[2]
       /\ SameDecodeInput(r1, r2)
       /\ TagsOf(r1) # TagsOf(r2)
       /\ \E k \in 1..Len(ListOf(r1)) : ListOf(r1)[k].end > ListOf(r1)[k].start

(***************************************************************************)
(* C14.  Scoring is order-independent: the counters tp, fp and fn of every *)
(* type that calc_entity_metrics has produced are the counters it produces *)
(* when the contexts come in any other order (the gold and the predicted   *)
(* lists permuted together) and when the spans of any context's gold list  *)
(* and predicted list come in any other order.                             *)
(***************************************************************************)
\* the calls calc_entity_metrics makes on the lists of contexts c, c+1, ...
RECURSIVE CallsFrom(_, _, _)
CallsFrom(golds, preds, c) ==
    IF c > Min(Len(golds), Len(preds)) THEN << >>
    ELSE PredictedCalls(golds[c], preds[c]) \o GoldCalls(golds[c], preds[c])
         \o CallsFrom(golds, preds, c + 1)

\* the Metric calc_entity_metrics returns for these lists
Totals(golds, preds) == AddAll(NewMetric(Tags), CallsFrom(golds, preds, 1))

\* the sequence in the order f
Permuted(seq, f) == [k \in 1..Len(seq) |-> seq[f[k]]]

Orders(seq) == Permutations(1..Len(seq))

C14_OrderIndependent ==
    pc = "done" =>
       /\ Len(gold_entity_spans) = Len(predicted_entity_spans) =>
             \A f \in Orders(gold_entity_spans) :
                Totals(Permuted(gold_entity_spans, f),
                       Permuted(predicted_entity_spans, f)) = metric
       /\ \A c \in 1..Min(Len(gold_entity_spans), Len(predicted_entity_spans)) :
             /\ \A f \in Orders(gold_entity_spans[c]) :
                   Totals([gold_entity_spans EXCEPT ![c] = Permuted(@, f)],
                          predicted_entity_spans) = metric
             /\ \A f \in Orders(predicted_entity_spans[c]) :
                   Totals(gold_entity_spans,
                          [predicted_entity_spans EXCEPT ![c] = Permuted(@, f)]) = metric

\* two contexts scored: in one the two gold and the two predicted spans are
\* the same, in the other the one predicted span is no gold span
C14_Witness ==
    /\ pc = "done"
    /\ Len(gold_entity_spans) = 2
    /\ Len(predicted_entity_spans) = 2
    /\ \E c \in 1..2 :
          /\ Len(gold_entity_spans[c]) = 2
          /\ Len(predicted_entity_spans[c]) = 2
          /\ \A k \in 1..2 : In(predicted_entity_spans[c][k], gold_entity_spans[c])
    /\ \E c \in 1..2 :
          /\ Len(gold_entity_spans[c]) = 2
          /\ Len(predicted_entity_spans[c]) = 1
          /\ ~In(predicted_entity_spans[c][1], gold_entity_spans[c])
    /\ Count("tp") = 2
    /\ Count("fp") = 1
    /\ Count("fn") = 2

(***************************************************************************)
(* C15.  One list per context, contexts independent: each decode routine   *)
(* returns one list per row of its batch, list i holding spans of context  *)
(* i only; every row starts with an empty list and no open span; and list  *)
(* i is a function of row i of the batch, row i of gold, num_labels and    *)
(* the entity type of context i alone (RowAfter), so no other row has any  *)
(* influence on it.                                                        *)
(***************************************************************************)
\* the body of the loop over the tokens, for the token at position p
\* (0-based) of context c (0-based): tag t, gold value m, entity type
RowStep(st, t, m, p, type, c) ==
    LET closed   == [st EXCEPT !.open = 0]
        created  == [spans |-> Append(st.spans, Span(c, p, p, type)),
                     open |-> Len(st.spans) + 1]
        extended == [st EXCEPT !.spans = SetEnd(st.spans, st.open, p)]
        sameType == st.open # 0 /\ type = st.spans[st.open].tag
    IN  IF m = IGNORE THEN closed
        ELSE IF num_labels = 2
        THEN IF t = b_tag_index
             THEN (IF sameType THEN extended ELSE created)
             ELSE closed
        ELSE IF t = b_tag_index THEN created
        ELSE IF t = s_tag_index THEN [created EXCEPT !.open = 0]
        ELSE IF st.open # 0 /\ t = i_tag_index
        THEN (IF sameType THEN (IF num_labels = 3 THEN extended ELSE st) ELSE closed)
        ELSE IF st.open # 0 /\ t = e_tag_index
        THEN (IF sameType THEN extended ELSE closed)
        ELSE closed

\* the list and the open span after the first k tokens of one row
RECURSIVE RowAfter(_, _, _, _, _)
RowAfter(tags, mask, k, type, c) ==
    IF k = 0 THEN [spans |-> << >>, open |-> 0]
    ELSE RowStep(RowAfter(tags, mask, k - 1, type, c), tags[k], mask[k], k - 1, type, c)

C15_OneListPerContext ==
    /\ pc \in {"pred", "metrics", "done"} => Len(gold_entity_spans) = Len(gold)
    /\ pc \in {"metrics", "done"} => Len(predicted_entity_spans) = Len(predicted)
    /\ (Decoding /\ tok_index = 0) => (context_spans = << >> /\ prev_span = 0)
    /\ \A r \in RowsDecoded :
          /\ \A s \in Range(ListOf(r)) :
                s.context_index = r[2] - 1 /\ s.tag = TypeOfContext(r[2])
          /\ ListOf(r) = RowAfter(TagsOf(r), MaskOf(r[2]), Len(TagsOf(r)),
                                  TypeOfContext(r[2]), r[2] - 1).spans
    /\ (Decoding /\ context_index < Len(Batch)) =>
          [spans |-> context_spans, open |-> prev_span]
             = RowAfter(Batch[context_index + 1], MaskOf(context_index + 1), tok_index,
                        EntityTag, context_index)

\* two contexts of two entity types decoded on both sides; the first
\* predicted row ends inside an entity, the second has an entity of its own
C15_Witness ==
    /\ pc = "done"
    /\ dataset # NoDataset
    /\ Len(gold_entity_spans) = 2
    /\ Len(predicted_entity_spans) = 2
    /\ TypeOfContext(1) # TypeOfContext(2)
    /\ predicted[1] # predicted[2]
    /\ predicted[1][Len(predicted[1])] \in {b_tag_index, i_tag_index}
    /\ Len(predicted_entity_spans[1]) >= 1
    /\ Len(predicted_entity_spans[2]) >= 1
    /\ predicted_entity_spans[2][1].context_index = 1

(***************************************************************************)
(* C16.  E closes the span: under the 4-class scheme, once a non-ignored E *)
(* token has set the end of a span, no later token of the row changes that *)
(* span's end ([B, E, E] and [B, E, I, E] leave the span at (0, 1)).       *)
(* As claimed; the code keeps the span open after E (line 71 assigns the   *)
(* end, prev_span is not cleared), and a later E moves the end again.      *)
(***************************************************************************)
\* span k of the row being decoded has had its end set by an E token
EndSetByE(k) ==
    /\ Decoding
    /\ context_index < Len(Batch)
    /\ context_spans[k].end > context_spans[k].start
    /\ Batch[context_index + 1][context_spans[k].end + 1] = e_tag_index

C16_EClosesSpan_AsClaimed ==
    [][(num_labels = 4 /\ pc' = pc /\ context_index' = context_index) =>
          \A k \in 1..Len(context_spans) :
             EndSetByE(k) => context_spans'[k].end = context_spans[k].end]_vars

(***************************************************************************)
(* C17.  Only E moves the boundary when E exists: under num_labels >= 4    *)
(* every span of every decoded prefix has start = end or a non-ignored E   *)
(* at its end, and every position strictly between its start and its end   *)
(* is a non-ignored I or E; and while the tokens after the last span's     *)
(* start are all I or E, that span is still the open span (an I has left   *)
(* its end where it was and has kept it open).                             *)
(***************************************************************************)
\* every processed position after the start of the last span is a
\* non-ignored I or E, and at least one is an I
InsideLastSpan(d) ==
    /\ d.spans # << >>
    /\ \A p \in (d.spans[Len(d.spans)].start + 1)..(d.upto - 1) :
          Has(d, p, i_tag_index) \/ Has(d, p, e_tag_index)
    /\ \E p \in (d.spans[Len(d.spans)].start + 1)..(d.upto - 1) : Has(d, p, i_tag_index)

C17_OnlyEMovesBoundary ==
    num_labels >= 4 =>
       /\ \A d \in Prefixes : \A s \in Range(d.spans) :
             /\ s.end = s.start \/ Has(d, s.end, e_tag_index)
             /\ \A p \in (s.start + 1)..(s.end - 1) :
                   Has(d, p, i_tag_index) \/ Has(d, p, e_tag_index)
       /\ \A d \in InProgress :
             (InsideLastSpan(d) /\ Has(d, d.spans[Len(d.spans)].start, b_tag_index)) =>
                /\ prev_span = Len(d.spans)
                /\ Has(d, d.upto - 1, i_tag_index) =>
                      d.spans[Len(d.spans)].end < d.upto - 1

\* B, I, E decoded to one span of three tokens: the I has kept the span
\* open and the E has set its end
C17_Witness ==
    /\ num_labels >= 4
    /\ \E d \in Decoded : \E s \in Range(d.spans) :
          /\ s.end = s.start + 2
          /\ Has(d, s.start, b_tag_index)
          /\ Has(d, s.start + 1, i_tag_index)
          /\ Has(d, s.end, e_tag_index)

(***************************************************************************)
(* C18.  S is isolated: under every scheme decoded by get_spans            *)
(* (num_labels # 2), in every decoded prefix a non-ignored position p      *)
(* tagged S has exactly one span starting there, and that span is (p, p);  *)
(* a non-ignored I or E directly after it starts no span and is the end of *)
(* none, and leaves no span open.                                          *)
(***************************************************************************)
\* the spans of the list that start at position p
StartingAt(d, p) == {k \in 1..Len(d.spans) : d.spans[k].start = p}

\* position p + 1 was processed and is a non-ignored I or E
ThenIOrE(d, p) ==
    /\ p + 1 < d.upto
    /\ Has(d, p + 1, i_tag_index) \/ Has(d, p + 1, e_tag_index)

C18_SIsIsolated ==
    num_labels # 2 =>
       /\ \A d \in Prefixes : \A p \in 0..(d.upto - 1) :
             Has(d, p, s_tag_index) =>
                /\ Cardinality(StartingAt(d, p)) = 1
                /\ \A k \in StartingAt(d, p) : d.spans[k].end = p
                /\ ThenIOrE(d, p) =>
                      \A s \in Range(d.spans) : s.end # p + 1 /\ s.start # p + 1
       /\ \A d \in InProgress :
             (d.upto >= 2 /\ Has(d, d.upto - 2, s_tag_index) /\ ThenIOrE(d, d.upto - 2)) =>
                prev_span = 0

\* a row with B, S, E decoded: the S has its span (p, p) and the E after it
\* has moved no end
C18_Witness ==
    /\ num_labels # 2
    /\ \E d \in Decoded : \E p \in 1..(Len(d.tags) - 2) :
          /\ Has(d, p - 1, b_tag_index)
          /\ Has(d, p, s_tag_index)
          /\ Has(d, p + 1, e_tag_index)
          /\ Bounds(d.spans) = <<<<p - 1, p - 1>>, <<p, p>>>>

(***************************************************************************)
(* C19.  Spans never bridge an ignored position: under every scheme, in    *)
(* every decoded prefix, no position from the start to the end of a span   *)
(* has the gold value -100; after an ignored position no span is open, and *)
(* a non-ignored I or E that comes directly after one starts no span, is   *)
(* the end of none and leaves none open.                                   *)
(***************************************************************************)
IgnoredIn(d, p) == d.mask[p + 1] = IGNORE

\* position p is a non-ignored I or E directly after an ignored position
OrphanAfterIgnored(d, p) ==
    /\ p >= 1
    /\ IgnoredIn(d, p - 1)
    /\ Has(d, p, i_tag_index) \/ Has(d, p, e_tag_index)

C19_NoBridgeOverIgnored ==
    /\ \A d \in Prefixes :
          /\ \A s \in Range(d.spans) : \A p \in s.start..s.end : ~IgnoredIn(d, p)
          /\ \A p \in 0..(d.upto - 1) :
                OrphanAfterIgnored(d, p) =>
                   \A s \in Range(d.spans) : s.start # p /\ s.end # p
    /\ \A d \in InProgress :
          (d.upto >= 1 /\ (IgnoredIn(d, d.upto - 1) \/ OrphanAfterIgnored(d, d.upto - 1)))
             => prev_span = 0

\* B, an ignored position, then I or E: the B's span is (p, p) and the
\* list holds nothing else
C19_Witness ==
    \E d \in Decoded : \E p \in 0..(Len(d.tags) - 3) :
       /\ Has(d, p, b_tag_index)
       /\ IgnoredIn(d, p + 1)
       /\ OrphanAfterIgnored(d, p + 2)
       /\ Bounds(d.spans) = <<<<p, p>>>>

(***************************************************************************)
(* C20.  Type mismatch cancels: an I or E read while a span is open, whose *)
(* resolved entity type differs from the open span's type, changes no end  *)
(* and ends the tracking.  The case needs an open span of another type     *)
(* than the entity of the context being decoded; the open span is always a *)
(* span of the row being decoded and carries that context's entity, so the *)
(* else branches of lines 67-68 and 73-74 are never taken.                 *)
(***************************************************************************)
\* the open span is a span of the current list and has the type every
\* token of the row resolves to
OpenSpanHasContextType ==
    (Decoding /\ prev_span # 0) =>
       /\ prev_span \in 1..Len(context_spans)
       /\ context_index < Len(Batch)
       /\ context_spans[prev_span].tag = EntityTag
       /\ context_spans[prev_span].context_index = context_index

(***************************************************************************)
(* C21.  One type per context: every span of list i, gold or predicted,    *)
(* has context index i and the entity of context i of the dataset, or      *)
(* "TAG" when the evaluator was built without a dataset; so the spans of   *)
(* one context share one type, and the Metric of an evaluator built        *)
(* without a dataset holds the single label "TAG".                         *)
(***************************************************************************)
\* the spans of list c (1-based) of the lists decoded so far
SpansOfContext(lists, c) == IF c <= Len(lists) THEN Range(lists[c]) ELSE {}

C21_OneTypePerContext ==
    /\ \A c \in 1..Max(Len(GoldLists), Len(PredLists)) :
          /\ \A s \in SpansOfContext(GoldLists, c) \cup SpansOfContext(PredLists, c) :
                /\ s.context_index = c - 1
                /\ s.tag = IF dataset # NoDataset THEN dataset[c] ELSE TAG
          /\ \A s \in SpansOfContext(GoldLists, c), t \in SpansOfContext(PredLists, c) :
                s.tag = t.tag
    /\ \A s \in Range(context_spans) :
          /\ s.context_index = context_index
          /\ s.tag = IF dataset # NoDataset THEN dataset[context_index + 1] ELSE TAG
    /\ (dataset = NoDataset /\ pc \in {"metrics", "done"}) => DOMAIN metric = {TAG}

\* two contexts of two entities, each with gold and predicted spans, scored
C21_Witness ==
    /\ pc = "done"
    /\ dataset # NoDataset
    /\ Len(gold_entity_spans) = 2
    /\ Len(predicted_entity_spans) = 2
    /\ \A c \in 1..2 : gold_entity_spans[c] # << >> /\ predicted_entity_spans[c] # << >>
    /\ gold_entity_spans[1][1].tag = "DISEASE"
    /\ predicted_entity_spans[2][1].tag = "GENE"
    /\ DOMAIN metric = {"DISEASE", "GENE"}

(***************************************************************************)
(* C22.  Count conservation: when gold and predicted have the same number  *)
(* of contexts, after calc_entity_metrics the add_tp calls plus the add_fp *)
(* calls are as many as the predicted spans, the add_tp calls plus the     *)
(* add_fn calls are as many as the gold spans, and no gold span is equal   *)
(* to more than one predicted span.                                        *)
(***************************************************************************)
\* the number of spans of the lists c, c + 1, ...
RECURSIVE SpansFrom(_, _)
SpansFrom(lists, c) ==
    IF c > Len(lists) THEN 0 ELSE Len(lists[c]) + SpansFrom(lists, c + 1)

\* the positions of the list that hold a span equal to the given one
Matches(span, spans) == {k \in 1..Len(spans) : SpanEq(spans[k], span)}

C22_CountConservation ==
    (pc = "done" /\ Len(gold) = Len(predicted)) =>
       /\ Count("tp") + Count("fp") = SpansFrom(predicted_entity_spans, 1)
       /\ Count("tp") + Count("fn") = SpansFrom(gold_entity_spans, 1)
       /\ Len(entity_metric) = Count("tp") + Count("fp") + Count("fn")
       /\ \A c \in 1..Len(gold_entity_spans) : \A g \in Range(gold_entity_spans[c]) :
             Cardinality(Matches(g, predicted_entity_spans[c])) <= 1

\* two contexts scored, with found, spurious and missed spans, and more
\* gold spans than predicted ones
C22_Witness ==
    /\ pc = "done"
    /\ Len(gold) = 2
    /\ Len(predicted) = 2
    /\ Count("tp") >= 1
    /\ Count("fp") >= 1
    /\ Count("fn") >= 2
    /\ SpansFrom(gold_entity_spans, 1) > SpansFrom(predicted_entity_spans, 1)

(***************************************************************************)
(* get_spans with the Span objects kept by identity: the lists hold        *)
(* references into the heap, prev_span is a reference, and                 *)
(* prev_span.end = tok_index writes through it.  Gold and predicted have   *)
(* the same shape here, so line 49 never raises.                           *)
(***************************************************************************)
\* one context; any gold row of the scheme with ignored positions, any
\* predicted row of the scheme
InitHeap ==
    /\ \E n \in NumLabels \ {2}, l \in 1..MaxHeapLen :
          \E g \in Rows({IGNORE} \cup SchemeTags(n), l), p \in Rows(SchemeTags(n), l) :
             Given(n, <<g>>, <<p>>, NoDataset)
    /\ pc = "gold"
    /\ context_index = 0
    /\ tok_index = 0
    /\ batch_spans = << >>
    /\ context_spans = << >>
    /\ prev_span = 0
    /\ gold_entity_spans = << >>
    /\ predicted_entity_spans = << >>
    /\ entity_metric = << >>
    /\ metric = NoMetric
    /\ report = NoReport
    /\ heap = << >>
    /\ MapIdle
    /\ EntryIdle

\* the decode loop moves to the next token
HeapNextToken ==
    /\ tok_index' = tok_index + 1
    /\ UNCHANGED <<inputs, mapVars, entryVars, metric, report, pc, context_index, batch_spans,
                   gold_entity_spans, predicted_entity_spans, entity_metric>>

\* lines 49-51
HeapIgnored ==
    /\ GetSpansAt
    /\ GoldDefined
    /\ Ignored
    /\ prev_span' = 0
    /\ UNCHANGED <<context_spans, heap>>
    /\ HeapNextToken

\* lines 52-56: a new object, appended, and the open span
HeapB ==
    /\ GetSpansAt
    /\ GoldDefined
    /\ ~Ignored
    /\ CurTag = b_tag_index
    /\ heap' = Append(heap, NewSpan)
    /\ context_spans' = Append(context_spans, Len(heap) + 1)
    /\ prev_span' = Len(heap) + 1
    /\ HeapNextToken

\* lines 57-61: a new object, appended, no open span
HeapS ==
    /\ GetSpansAt
    /\ GoldDefined
    /\ ~Ignored
    /\ CurTag # b_tag_index
    /\ CurTag = s_tag_index
    /\ heap' = Append(heap, NewSpan)
    /\ context_spans' = Append(context_spans, Len(heap) + 1)
    /\ prev_span' = 0
    /\ HeapNextToken

\* lines 62-68
HeapI ==
    /\ GetSpansAt
    /\ GoldDefined
    /\ ~Ignored
    /\ CurTag \notin {b_tag_index, s_tag_index}
    /\ prev_span # 0
    /\ CurTag = i_tag_index
    /\ IF EntityTag = heap[prev_span].tag
       THEN /\ heap' = IF num_labels = 3 THEN SetEnd(heap, prev_span, tok_index) ELSE heap
            /\ UNCHANGED prev_span
       ELSE /\ prev_span' = 0
            /\ UNCHANGED heap
    /\ UNCHANGED context_spans
    /\ HeapNextToken

\* lines 69-74
HeapE ==
    /\ GetSpansAt
    /\ GoldDefined
    /\ ~Ignored
    /\ CurTag \notin {b_tag_index, s_tag_index}
    /\ ~(prev_span # 0 /\ CurTag = i_tag_index)
    /\ prev_span # 0
    /\ CurTag = e_tag_index
    /\ IF EntityTag = heap[prev_span].tag
       THEN /\ heap' = SetEnd(heap, prev_span, tok_index)
            /\ UNCHANGED prev_span
       ELSE /\ prev_span' = 0
            /\ UNCHANGED heap
    /\ UNCHANGED context_spans
    /\ HeapNextToken

\* lines 75-76
HeapElse ==
    /\ GetSpansAt
    /\ GoldDefined
    /\ ~Ignored
    /\ CurTag \notin {b_tag_index, s_tag_index}
    /\ ~(prev_span # 0 /\ CurTag = i_tag_index)
    /\ ~(prev_span # 0 /\ CurTag = e_tag_index)
    /\ prev_span' = 0
    /\ UNCHANGED <<context_spans, heap>>
    /\ HeapNextToken

\* HeapEndOfRow with a fault: the open span is kept by the evaluator and
\* is not cleared where a row starts
HeapEndOfRow_KeepsOpen ==
    /\ Decoding
    /\ context_index < Len(Batch)
    /\ tok_index = Len(Batch[context_index + 1])
    /\ batch_spans' = Append(batch_spans, context_spans)
    /\ context_index' = context_index + 1
    /\ tok_index' = 0
    /\ context_spans' = << >>
    /\ UNCHANGED <<inputs, mapVars, entryVars, metric, report, pc, prev_span, heap, gold_entity_spans,
                   predicted_entity_spans, entity_metric>>

\* line 77, and lines 46-47 for whatever row is decoded next: the list and
\* the open span are locals, created anew for every row of every call
HeapEndOfRow ==
    /\ Decoding
    /\ context_index < Len(Batch)
    /\ tok_index = Len(Batch[context_index + 1])
    /\ batch_spans' = Append(batch_spans, context_spans)
    /\ context_index' = context_index + 1
    /\ tok_index' = 0
    /\ context_spans' = << >>
    /\ prev_span' = 0
    /\ UNCHANGED <<inputs, mapVars, entryVars, metric, report, pc, heap, gold_entity_spans,
                   predicted_entity_spans, entity_metric>>

\* line 22: self.gold_entity_spans = self.get_spans(self.gold)
HeapReturnGold ==
    /\ pc = "gold"
    /\ context_index = Len(gold)
    /\ gold_entity_spans' = batch_spans
    /\ pc' = "pred"
    /\ batch_spans' = << >>
    /\ context_index' = 0
    /\ UNCHANGED <<inputs, mapVars, entryVars, metric, report, heap, tok_index, context_spans, prev_span,
                   predicted_entity_spans, entity_metric>>

\* line 23: self.predicted_entity_spans = self.get_spans(self.predicted)
HeapReturnPredicted ==
    /\ pc = "pred"
    /\ context_index = Len(predicted)
    /\ predicted_entity_spans' = batch_spans
    /\ pc' = "decoded"
    /\ batch_spans' = << >>
    /\ context_index' = 0
    /\ UNCHANGED <<inputs, mapVars, entryVars, metric, report, heap, tok_index, context_spans, prev_span,
                   gold_entity_spans, entity_metric>>

NextHeap ==
    \/ HeapIgnored
    \/ HeapB
    \/ HeapS
    \/ HeapI
    \/ HeapE
    \/ HeapElse
    \/ HeapEndOfRow
    \/ HeapReturnGold
    \/ HeapReturnPredicted

SpecHeap == InitHeap /\ [][NextHeap]_vars

(***************************************************************************)
(* C23.  Decoding has no side effect on its inputs or on the other side:   *)
(* no step of the construction changes the gold or the predicted tag       *)
(* array; once the gold list is returned, no step of the predicted         *)
(* decoding (its assignments to a span's end included) changes the gold    *)
(* list or any Span object it holds; and no Span object is held by both    *)
(* lists.                                                                  *)
(***************************************************************************)
\* the objects the lists of a batch refer to
Objects(lists) == UNION {Range(lists[c]) : c \in 1..Len(lists)}

GoldObjects == Objects(gold_entity_spans)

\* the objects of the predicted side: returned, appended, or being built
PredictedObjects ==
    Objects(predicted_entity_spans)
       \cup (IF pc = "pred" THEN Objects(batch_spans) \cup Range(context_spans) ELSE {})

C23_NoSideEffects ==
    [][/\ gold' = gold
       /\ predicted' = predicted
       /\ pc \in {"pred", "decoded"} =>
             /\ gold_entity_spans' = gold_entity_spans
             /\ \A o \in GoldObjects : heap'[o] = heap[o]
             /\ GoldObjects \cap PredictedObjects = {}
       /\ pc' = "decoded" => GoldObjects' \cap PredictedObjects' = {}]_vars

\* both sides were decoded, each holds a span whose end was assigned after
\* it was appended, and the gold row ended inside an entity
C23_Witness ==
    /\ pc = "decoded"
    /\ heap # << >>
    /\ \E o \in GoldObjects : heap[o].end > heap[o].start
    /\ \E o \in PredictedObjects : heap[o].end > heap[o].start
    /\ gold[1][Len(gold[1])] \in {i_tag_index, e_tag_index}

(***************************************************************************)
(* NerQAExecutor.bert_to_orig_token_mapping1 (main_qa.py).  A sentence is  *)
(* known by its text; an entry is kept by the predicted column of its      *)
(* rows, the text and gold columns are written once and never read.  A tag *)
(* is a pair <<kind, entity>>.                                             *)
(***************************************************************************)
\* self.additional_args.pad_tag and none_tag
PadTag == <<"PAD", "">>

NoneTag == <<"O", "">>

\* the sentences of the dataset and the number of their original tokens
SentenceLen == [s1 |-> 2, s2 |-> 1]

Sentences == DOMAIN SentenceLen

\* a sub-word token of a context: token_type 0 for the query part, and the
\* index of the original token it is a piece of
BertToken(type, offset) == [token_type |-> type, offset |-> offset]

\* context.bert_tokens: the query, then the pieces of the sentence's tokens,
\* the first token of s1 being split in two
BertTokens ==
    [s1 |-> <<BertToken(0, 0), BertToken(1, 0), BertToken(1, 0), BertToken(1, 1)>>,
     s2 |-> <<BertToken(0, 0), BertToken(1, 0)>>]

\* the rows the model may predict for a context of the sentence; the last
\* row of s1 is shorter than the context
PredictionRows ==
    [s1 |-> {<<none_tag_index, a, b, c>> :
                a \in {none_tag_index, b_tag_index, i_tag_index},
                b \in {none_tag_index, s_tag_index},
                c \in {none_tag_index, e_tag_index}}
            \cup {<<none_tag_index, b_tag_index>>},
     s2 |-> {<<none_tag_index, a>> : a \in {none_tag_index, s_tag_index, i_tag_index}}]

\* a context and the row predicted for it
ContextChoices ==
    UNION {{[context |-> [sentence |-> s, entity |-> en, bert_tokens |-> BertTokens[s]],
             prediction |-> p] : p \in PredictionRows[s]} :
           s \in Sentences, en \in MetricTypes}

InitMap ==
    /\ \E k \in 0..MaxContexts :
          \E cs \in [1..k -> ContextChoices] :
             /\ contexts = [c \in 1..k |-> cs[c].context]
             /\ model_predictions = [c \in 1..k |-> cs[c].prediction]
    /\ data_dict = << >>
    /\ i_ctx = 0
    /\ j_bert = 0
    /\ ptr = 0
    /\ data = << >>
    /\ Given(3, << >>, << >>, NoDataset)
    /\ pc = "map_context"
    /\ context_index = 0
    /\ tok_index = 0
    /\ batch_spans = << >>
    /\ context_spans = << >>
    /\ prev_span = 0
    /\ gold_entity_spans = << >>
    /\ predicted_entity_spans = << >>
    /\ entity_metric = << >>
    /\ metric = NoMetric
    /\ report = NoReport
    /\ heap = << >>
    /\ EntryIdle

\* what a mapping step leaves alone besides its own state
MapFrame ==
    UNCHANGED <<num_labels, gold, predicted, dataset, context_index, tok_index,
                batch_spans, context_spans, prev_span, gold_entity_spans,
                predicted_entity_spans, entity_metric, metric, report, heap,
                contexts, model_predictions, entryVars>>

\* dataset.contexts[i], its sentence's text, and model_predictions[i]
Context == contexts[i_ctx + 1]

text_sentence == Context.sentence

Prediction == model_predictions[i_ctx + 1]

\* lines 117-128: the entry of a sentence seen for the first time has
\* pad_tag in every row; ptr = 0
MapStartContext ==
    /\ pc = "map_context"
    /\ i_ctx < Len(contexts)
    /\ data_dict' = IF text_sentence \notin DOMAIN data_dict
                    THEN [s \in DOMAIN data_dict \cup {text_sentence} |->
                             IF s = text_sentence
                             THEN [k \in 1..SentenceLen[s] |-> PadTag]
                             ELSE data_dict[s]]
                    ELSE data_dict
    /\ ptr' = 0
    /\ j_bert' = 0
    /\ pc' = "map_tokens"
    /\ UNCHANGED <<i_ctx, data>>
    /\ MapFrame

\* line 129
MapR == Min(Len(Prediction), Len(Context.bert_tokens))

MapAt == pc = "map_tokens" /\ j_bert < MapR

CurBert == Context.bert_tokens[j_bert + 1]

\* lines 131-132: a token of the query
MapSkipQuery ==
    /\ MapAt
    /\ CurBert.token_type = 0
    /\ j_bert' = j_bert + 1
    /\ UNCHANGED <<data_dict, i_ctx, ptr, data, pc>>
    /\ MapFrame

\* lines 134-135: not the first piece of the token ptr points to
MapSkipOffset ==
    /\ MapAt
    /\ CurBert.token_type # 0
    /\ CurBert.offset # ptr
    /\ j_bert' = j_bert + 1
    /\ UNCHANGED <<data_dict, i_ctx, ptr, data, pc>>
    /\ MapFrame

\* MapKeep with a fault: a tag that is already an entity tag is replaced by
\* the none tag
MapKeep_Resets ==
    /\ MapAt
    /\ CurBert.token_type # 0
    /\ CurBert.offset = ptr
    /\ data_dict[text_sentence][ptr + 1] \notin {PadTag, NoneTag}
    /\ data_dict' = [data_dict EXCEPT ![text_sentence][ptr + 1] = NoneTag]
    /\ ptr' = ptr + 1
    /\ j_bert' = j_bert + 1
    /\ UNCHANGED <<i_ctx, data, pc>>
    /\ MapFrame

\* lines 137-139: the token already has an entity tag
MapKeep ==
    /\ MapAt
    /\ CurBert.token_type # 0
    /\ CurBert.offset = ptr
    /\ data_dict[text_sentence][ptr + 1] \notin {PadTag, NoneTag}
    /\ ptr' = ptr + 1
    /\ j_bert' = j_bert + 1
    /\ UNCHANGED <<data_dict, i_ctx, data, pc>>
    /\ MapFrame

\* lines 141-148
TagAssignment(index, entity) ==
    IF index = b_tag_index \/ index = s_tag_index THEN <<"B", entity>>
    ELSE IF index = i_tag_index \/ index = e_tag_index THEN <<"I", entity>>
    ELSE NoneTag

\* lines 141-151
MapAssign ==
    /\ MapAt
    /\ CurBert.token_type # 0
    /\ CurBert.offset = ptr
    /\ data_dict[text_sentence][ptr + 1] \in {PadTag, NoneTag}
    /\ data_dict' = [data_dict EXCEPT ![text_sentence][ptr + 1] =
                        TagAssignment(Prediction[j_bert + 1], Context.entity)]
    /\ ptr' = ptr + 1
    /\ j_bert' = j_bert + 1
    /\ UNCHANGED <<i_ctx, data, pc>>
    /\ MapFrame

\* range(r) is exhausted: the next context
MapEndContext ==
    /\ pc = "map_tokens"
    /\ j_bert = MapR
    /\ i_ctx' = i_ctx + 1
    /\ pc' = "map_context"
    /\ UNCHANGED <<data_dict, j_bert, ptr, data>>
    /\ MapFrame

\* line 153: every context is mapped, the second loop starts
MapCollectStart ==
    /\ pc = "map_context"
    /\ i_ctx = Len(contexts)
    /\ i_ctx' = 0
    /\ pc' = "map_collect"
    /\ UNCHANGED <<data_dict, j_bert, ptr, data>>
    /\ MapFrame

\* lines 154-158: the entry of a sentence is moved to data at its first
\* context
MapCollect ==
    /\ pc = "map_collect"
    /\ i_ctx < Len(contexts)
    /\ IF text_sentence \in DOMAIN data_dict
       THEN /\ data' = Append(data, [sentence |-> text_sentence,
                                     tags |-> data_dict[text_sentence]])
            /\ data_dict' = [s \in DOMAIN data_dict \ {text_sentence} |-> data_dict[s]]
       ELSE UNCHANGED <<data, data_dict>>
    /\ i_ctx' = i_ctx + 1
    /\ UNCHANGED <<j_bert, ptr, pc>>
    /\ MapFrame

\* line 160
MapReturn ==
    /\ pc = "map_collect"
    /\ i_ctx = Len(contexts)
    /\ pc' = "map_done"
    /\ UNCHANGED <<data_dict, i_ctx, j_bert, ptr, data>>
    /\ MapFrame

NextMap ==
    \/ MapStartContext
    \/ MapSkipQuery
    \/ MapSkipOffset
    \/ MapKeep
    \/ MapAssign
    \/ MapEndContext
    \/ MapCollectStart
    \/ MapCollect
    \/ MapReturn

SpecMap == InitMap /\ [][NextMap]_vars

(***************************************************************************)
(* C24.  First writer wins in bert_to_orig_token_mapping1: at every moment *)
(* the predicted tag of an original token is the tag assigned from the     *)
(* prediction at the token's first sub-word position by the first context  *)
(* of its sentence (in dataset order, among the contexts mapped so far)    *)
(* that predicted an entity there; without such a context it is none_tag   *)
(* if some context reached the token and pad_tag otherwise.  So an entity  *)
(* tag, once held, is changed by no later sub-word and no later context.   *)
(* The returned list holds every distinct sentence once, in the order of   *)
(* its first context.                                                      *)
(***************************************************************************)
\* the first sub-word position (1-based) of original token k (0-based) in
\* context c, 0 if it has none
FirstPiece(c, k) ==
    LET pieces == {j \in 1..Len(contexts[c].bert_tokens) :
                      /\ contexts[c].bert_tokens[j].token_type # 0
                      /\ contexts[c].bert_tokens[j].offset = k}
    IN  IF pieces = {} THEN 0 ELSE CHOOSE j \in pieces : \A m \in pieces : j <= m

\* the loop over j gets to the first sub-word of token k in context c
Reached(c, k) ==
    /\ FirstPiece(c, k) # 0
    /\ FirstPiece(c, k) <= Min(Len(model_predictions[c]), Len(contexts[c].bert_tokens))

\* and it has done so already
Mapped(c, k) ==
    /\ Reached(c, k)
    /\ \/ pc \in {"map_collect", "map_done"}
       \/ c <= i_ctx
       \/ c = i_ctx + 1 /\ pc = "map_tokens" /\ k < ptr

\* what context c says about token k: the tag of the prediction at the
\* token's first sub-word
Proposal(c, k) ==
    TagAssignment(model_predictions[c][FirstPiece(c, k)], contexts[c].entity)

FirstWriterTag(s, k) ==
    LET cs == {c \in 1..Len(contexts) : contexts[c].sentence = s /\ Mapped(c, k)}
        es == {c \in cs : Proposal(c, k) \notin {PadTag, NoneTag}}
    IN  IF es # {} THEN Proposal(CHOOSE c \in es : \A d \in es : c <= d, k)
        ELSE IF cs # {} THEN NoneTag
        ELSE PadTag

\* the sentences of the first n contexts, each once, in the order of its
\* first context
RECURSIVE FirstSeen(_)
FirstSeen(n) ==
    IF n = 0 THEN << >>
    ELSE IF contexts[n].sentence \in Range(FirstSeen(n - 1))
         THEN FirstSeen(n - 1)
         ELSE Append(FirstSeen(n - 1), contexts[n].sentence)

C24_FirstWriterWins ==
    /\ \A s \in DOMAIN data_dict : \A k \in 0..(SentenceLen[s] - 1) :
          data_dict[s][k + 1] = FirstWriterTag(s, k)
    /\ \A n \in 1..Len(data) : \A k \in 0..(SentenceLen[data[n].sentence] - 1) :
          data[n].tags[k + 1] = FirstWriterTag(data[n].sentence, k)
    /\ pc = "map_done" =>
          /\ [n \in 1..Len(data) |-> data[n].sentence] = FirstSeen(Len(contexts))
          /\ DOMAIN data_dict = {}

\* two contexts of one sentence, of two entities: both predict an entity at
\* the first sub-word of the first token, the first context's tag is
\* returned; the second piece of the token is predicted an entity by both
C24_Witness ==
    /\ pc = "map_done"
    /\ Len(contexts) = 2
    /\ contexts[1].sentence = contexts[2].sentence
    /\ contexts[1].entity = "DISEASE"
    /\ contexts[2].entity = "GENE"
    /\ \A c \in 1..2 :
          /\ Len(model_predictions[c]) = 4
          /\ model_predictions[c][2] = b_tag_index
          /\ model_predictions[c][3] = s_tag_index
    /\ model_predictions[1][4] = none_tag_index
    /\ model_predictions[2][4] = e_tag_index
    /\ Len(data) = 1
    /\ data[1].tags = <<<<"B", "DISEASE">>, <<"I", "GENE">>>>

\* ---------------------------------------------------------------------------
\* make_entry_context (generate_bio.py): the annotations of a document are
\* thinned to a non-overlapping list, written to the tokens as B-/I- tags,
\* and the tokens are cut into sentences.
\* ---------------------------------------------------------------------------

\* the largest number of tokens and of annotations of a short document
MaxTokens == 3

MaxTags == 2

\* a sentence may be closed once it holds more than this many tokens
SplitAfter == 300

\* the texts are single-character tokens separated by single spaces, so
\* the k-th token (from 0) of token_with_pos is at characters [2k, 2k+1)
\* and its text is "." where the text has a full stop, a word elsewhere
Token(k) ==
    [text |-> IF k \in token_with_pos.dots THEN "." ELSE "w",
     start |-> 2 * k,
     end |-> 2 * k + 1]

\* len(final_tokens)
NumTokens == token_with_pos.len

\* the annotations [tag, start, end] of a text of n tokens
Annotations(n) ==
    {an \in [tag : {"DISEASE"}, start : 0..(2 * n - 1), end : 0..(2 * n - 1)] :
        an.start < an.end}

\* the lengths of the long documents, and where they may have a full stop
LongLens == {SplitAfter, SplitAfter + 1, SplitAfter + 2, 2 * SplitAfter + 3}

DotCandidates ==
    {SplitAfter - 1, SplitAfter, SplitAfter + 1, 2 * SplitAfter + 1, 2 * SplitAfter + 2}

\* a short document with any list of annotations
ShortDocument ==
    \E n \in {0, MaxTokens} :
       \E d \in {{}, {n - 1} \cap (0..(n - 1)), {0} \cap (0..(n - 1))} :
          \E l \in 0..MaxTags :
             \E ts \in [1..l -> Annotations(n)] :
                /\ token_with_pos = [len |-> n, dots |-> d]
                /\ entry_tags = ts

\* two annotations of the first two tokens that overlap
Overlapping ==
    <<[tag |-> "DISEASE", start |-> 0, end |-> 3],
      [tag |-> "DISEASE", start |-> 2, end |-> 5]>>

\* a long document, without annotations or with the overlapping two
LongDocument ==
    \E n \in LongLens :
       \E d \in SUBSET (DotCandidates \cap (0..(n - 1))) :
          \E ts \in {<< >>, Overlapping} :
             /\ token_with_pos = [len |-> n, dots |-> d]
             /\ entry_tags = ts

\* the state at line 41, with the tokens of the text in token_with_pos
InitEntry ==
    /\ ShortDocument \/ LongDocument
    /\ tok_tags = << >>
    /\ error_cnt = 0
    /\ non_overlap_tags = << >>
    /\ entry_start = 0
    /\ tag_i = 0
    /\ tok_i = 0
    /\ do_split = FALSE
    /\ sentences = << >>
    /\ Given(3, << >>, << >>, NoDataset)
    /\ pc = "entry_overlap"
    /\ context_index = 0
    /\ tok_index = 0
    /\ batch_spans = << >>
    /\ context_spans = << >>
    /\ prev_span = 0
    /\ gold_entity_spans = << >>
    /\ predicted_entity_spans = << >>
    /\ entity_metric = << >>
    /\ metric = NoMetric
    /\ report = NoReport
    /\ heap = << >>
    /\ MapIdle

\* what a step of make_entry_context leaves alone besides its own state
EntryFrame ==
    UNCHANGED <<num_labels, gold, predicted, dataset, context_index, tok_index,
                batch_spans, context_spans, prev_span, gold_entity_spans,
                predicted_entity_spans, entity_metric, metric, report, heap,
                mapVars, token_with_pos, entry_tags>>

\* the annotation the loops over the annotations are at
CurAnnotation == entry_tags[tag_i + 1]

\* lines 45-47 with start left where it was
EntryKeep_StartNotMoved ==
    /\ pc = "entry_overlap"
    /\ tag_i < Len(entry_tags)
    /\ CurAnnotation.start >= entry_start
    /\ non_overlap_tags' = Append(non_overlap_tags, CurAnnotation)
    /\ tag_i' = tag_i + 1
    /\ UNCHANGED <<entry_start, pc, tok_tags, error_cnt, tok_i, do_split, sentences>>
    /\ EntryFrame

\* lines 44-47: an annotation starting at or after start is kept
EntryKeep ==
    /\ pc = "entry_overlap"
    /\ tag_i < Len(entry_tags)
    /\ CurAnnotation.start >= entry_start
    /\ non_overlap_tags' = Append(non_overlap_tags, CurAnnotation)
    /\ entry_start' = CurAnnotation.end
    /\ tag_i' = tag_i + 1
    /\ UNCHANGED <<pc, tok_tags, error_cnt, tok_i, do_split, sentences>>
    /\ EntryFrame

\* lines 48-50: any other annotation is dropped and counted
EntryDrop ==
    /\ pc = "entry_overlap"
    /\ tag_i < Len(entry_tags)
    /\ ~(CurAnnotation.start >= entry_start)
    /\ error_cnt' = error_cnt + 1
    /\ tag_i' = tag_i + 1
    /\ UNCHANGED <<pc, tok_tags, non_overlap_tags, entry_start, tok_i, do_split,
                   sentences>>
    /\ EntryFrame

\* line 52: the loop over tags is over, the loop over non_overlap_tags begins
EntryOverlapDone ==
    /\ pc = "entry_overlap"
    /\ tag_i = Len(entry_tags)
    /\ pc' = "entry_tag"
    /\ tag_i' = 0
    /\ UNCHANGED <<tok_tags, error_cnt, non_overlap_tags, entry_start, tok_i, do_split,
                   sentences>>
    /\ EntryFrame

\* tok[0].tags of the k-th token: "O" as long as nothing is written to it
TagOfToken(tt, k) == IF k \in DOMAIN tt THEN tt[k] ELSE <<"O", "">>

\* lines 54-63 from token k on: the tags written for annotation tag, and
\* whether its start and its end were found
RECURSIVE TagTokens(_, _, _, _)
TagTokens(tag, k, tt, found_start) ==
    IF k >= NumTokens
    THEN [tok_tags |-> tt, found_start |-> found_start, found_end |-> FALSE]
    ELSE LET tok == Token(k)
             written ==
                 IF tok.start = tag.start
                 THEN (k :> <<"B", tag.tag>>) @@ tt
                 ELSE IF found_start /\ tok.start > tag.start /\ tok.end <= tag.end
                      THEN (k :> <<"I", tag.tag>>) @@ tt
                      ELSE tt
             found == found_start \/ tok.start = tag.start
         IN  IF tok.end = tag.end
             THEN [tok_tags |-> written, found_start |-> found, found_end |-> TRUE]
             ELSE TagTokens(tag, k + 1, written, found)

\* lines 52-66: one kept annotation is written to the tokens; one whose
\* start or end is at no token boundary is counted
EntryTag ==
    /\ pc = "entry_tag"
    /\ tag_i < Len(non_overlap_tags)
    /\ LET done == TagTokens(non_overlap_tags[tag_i + 1], 0, tok_tags, FALSE)
       IN  /\ tok_tags' = done.tok_tags
           /\ error_cnt' = IF ~(done.found_start /\ done.found_end)
                           THEN error_cnt + 1
                           ELSE error_cnt
    /\ tag_i' = tag_i + 1
    /\ UNCHANGED <<pc, non_overlap_tags, entry_start, tok_i, do_split, sentences>>
    /\ EntryFrame

\* lines 68-72: the loop over the tokens begins
EntryTagDone ==
    /\ pc = "entry_tag"
    /\ tag_i = Len(non_overlap_tags)
    /\ pc' = "entry_split"
    /\ sentences' = << >>
    /\ entry_start' = 0
    /\ do_split' = FALSE
    /\ tok_i' = 0
    /\ UNCHANGED <<tok_tags, error_cnt, non_overlap_tags, tag_i>>
    /\ EntryFrame

\* lines 74-75: do_split once the open sentence holds SplitAfter tokens
DoSplitNow == do_split \/ tok_i - entry_start >= SplitAfter

\* final_tokens[a:b]
Slice(a, b) == [from |-> a, to |-> b]

\* lines 73-79, at a full stop of a sentence that is long enough: the
\* sentence is closed
EntrySplit ==
    /\ pc = "entry_split"
    /\ tok_i < NumTokens
    /\ DoSplitNow /\ Token(tok_i).text = "."
    /\ sentences' = Append(sentences, Slice(entry_start, tok_i + 1))
    /\ entry_start' = tok_i + 1
    /\ do_split' = FALSE
    /\ tok_i' = tok_i + 1
    /\ UNCHANGED <<pc, tok_tags, error_cnt, non_overlap_tags, tag_i>>
    /\ EntryFrame

\* lines 73-76, at any other token
EntryNoSplit ==
    /\ pc = "entry_split"
    /\ tok_i < NumTokens
    /\ ~(DoSplitNow /\ Token(tok_i).text = ".")
    /\ do_split' = DoSplitNow
    /\ tok_i' = tok_i + 1
    /\ UNCHANGED <<pc, tok_tags, error_cnt, non_overlap_tags, entry_start, tag_i,
                   sentences>>
    /\ EntryFrame

\* lines 80-83: the tokens left over are the last sentence
EntryReturn ==
    /\ pc = "entry_split"
    /\ tok_i = NumTokens
    /\ sentences' = IF entry_start < NumTokens
                    THEN Append(sentences, Slice(entry_start, NumTokens))
                    ELSE sentences
    /\ pc' = "entry_done"
    /\ UNCHANGED <<tok_tags, error_cnt, non_overlap_tags, entry_start, tag_i, tok_i,
                   do_split>>
    /\ EntryFrame

NextEntry ==
    \/ EntryKeep
    \/ EntryDrop
    \/ EntryOverlapDone
    \/ EntryTag
    \/ EntryTagDone
    \/ EntrySplit
    \/ EntryNoSplit
    \/ EntryReturn

SpecEntry == InitEntry /\ [][NextEntry]_vars

\* the annotations kept among the first m, as the claim words it: an
\* annotation is kept exactly when its start is at or after the end of the
\* last kept one (offset 0 while none is kept)
RECURSIVE KeptAmong(_)
KeptAmong(m) ==
    IF m = 0
    THEN << >>
    ELSE LET before == KeptAmong(m - 1)
             last_end == IF before = << >> THEN 0 ELSE before[Len(before)].end
         IN  IF entry_tags[m].start >= last_end
             THEN Append(before, entry_tags[m])
             ELSE before

\* an annotation whose start or end is at no token boundary
Misaligned(an) ==
    \/ ~\E k \in 0..(NumTokens - 1) : Token(k).start = an.start
    \/ ~\E k \in 0..(NumTokens - 1) : Token(k).end = an.end

\* the tokens of final_tokens[a:b], with the tags written to them
TokenList(a, b) ==
    [k \in 1..(b - a) |->
        [text |-> Token(a + k - 1).text, tags |-> TagOfToken(tok_tags, a + k - 1)]]

\* the first n sentences, concatenated in order
RECURSIVE Concatenated(_)
Concatenated(n) ==
    IF n = 0
    THEN << >>
    ELSE Concatenated(n - 1) \o TokenList(sentences[n].from, sentences[n].to)

\* the annotations the loop of lines 44-50 has gone through
Seen == IF pc = "entry_overlap" THEN tag_i ELSE Len(entry_tags)

\* the kept annotations the loop of lines 52-66 has gone through
Written ==
    IF pc = "entry_overlap" THEN 0
    ELSE IF pc = "entry_tag" THEN tag_i
    ELSE Len(non_overlap_tags)

\* C25: make_entry_context keeps an annotation exactly when its start is at
\* or after the end of the last kept annotation, so the kept annotations are
\* pairwise non-overlapping and ordered; each dropped annotation adds one to
\* the error count (which otherwise counts only the kept annotations that
\* fall on no token boundary); the returned sentences, concatenated in
\* order, are the full token list; and every sentence but possibly the last
\* ends with the token "." and holds more than SplitAfter tokens.
C25_GreedyKeepAndNoTokenLost ==
    pc \in {"entry_overlap", "entry_tag", "entry_split", "entry_done"} =>
       /\ non_overlap_tags = KeptAmong(Seen)
       /\ \A a \in 1..Len(non_overlap_tags) :
             \A b \in (a + 1)..Len(non_overlap_tags) :
                non_overlap_tags[a].end <= non_overlap_tags[b].start
       /\ error_cnt = (Seen - Len(non_overlap_tags))
                      + Cardinality({m \in 1..Written : Misaligned(non_overlap_tags[m])})
       /\ \A s \in 1..Len(sentences) :
             (s < Len(sentences) \/ pc # "entry_done") =>
                /\ Token(sentences[s].to - 1).text = "."
                /\ sentences[s].to - sentences[s].from > SplitAfter
       /\ pc = "entry_done" =>
             Concatenated(Len(sentences)) = TokenList(0, NumTokens)

\* a long document is returned as two closed sentences and a rest, with
\* one of its two annotations kept and written and the other counted
C25_Witness ==
    /\ pc = "entry_done"
    /\ Len(entry_tags) = 2
    /\ Len(non_overlap_tags) = 1
    /\ error_cnt = 1
    /\ TagOfToken(tok_tags, 0) = <<"B", "DISEASE">>
    /\ TagOfToken(tok_tags, 1) = <<"I", "DISEASE">>
    /\ Len(sentences) = 3
    /\ sentences[1] = Slice(0, SplitAfter + 1)
    /\ sentences[3].to = NumTokens

====
